---- MODULE Spec2Model ----
(***************************************************************************)
(* PayArk SDK: the HTTP transport (src/src/http.ts) and its error factory  *)
(* (src/src/errors.ts) as a state machine.                                 *)
(*                                                                         *)
(* One HttpClient is constructed in Init.  A logical request is a call of  *)
(* HttpClient.request; it suspends at `await fetch(...)` and at            *)
(* `await this.sleep(delay)`, so the request is cut into actions at these  *)
(* two points.  Optional values (undefined in the source) are sequences of *)
(* length 0 or 1.                                                          *)
(***************************************************************************)
EXTENDS Integers, Sequences, FiniteSets, TLC

\* ---------------------------------------------------------------- bounds

\* Largest configured maxRetries that is explored.
MaxRetriesBound == 2

\* Number of logical requests issued on the client, one after the other.
MaxRequests == 2

\* Largest all-digits Retry-After value (seconds) the server sends.
MaxRetryAfterSeconds == 2

\* ------------------------------------------------------ program constants

RETRYABLE_STATUS_CODES == {429, 500, 502, 503, 504}

MUTATING_METHODS == {"POST", "PUT", "PATCH"}

HttpMethod == {"GET", "POST", "PUT", "PATCH", "DELETE"}

DEFAULT_TIMEOUT == 30000

DEFAULT_MAX_RETRIES == 2

BACKOFF_BASE_MS == 500

JITTER_MS == 200

\* ------------------------------------------------------------- optionals

Undefined == <<>>

Some(v) == <<v>>

IsDefined(o) == o # <<>>

\* a ?? b
Coalesce(o, d) == IF IsDefined(o) THEN o[1] ELSE d

\* JavaScript truthiness of an optional string: undefined and "" are falsy.
Truthy(o) == IsDefined(o) /\ o[1] # ""

\* Mutant: a ?? b ?? c, which takes the empty string.
FirstTruthy_Nullish(a, b, c) ==
    IF IsDefined(a) THEN a[1] ELSE IF IsDefined(b) THEN b[1] ELSE c

\* a || b || c on optional strings, c being a plain string.
FirstTruthy(a, b, c) == IF Truthy(a) THEN a[1] ELSE IF Truthy(b) THEN b[1] ELSE c

Max(a, b) == IF a >= b THEN a ELSE b

\* ------------------------------------------------------- response bodies

\* JSON values the API sends: objects with an optional `error` string and an
\* optional `data` member.
JsonObject(err, data) == [error |-> err, data |-> data]

EmptyObject == JsonObject(Undefined, Undefined)

\* Body texts on the wire.  The empty body is not JSON.
BodyTexts ==
    {"", "{\"error\":\"\"}", "{\"error\":\"Invalid API Key\"}", "{\"data\":[]}"}

\* response.json(): Undefined when the body does not parse (the call throws).
ParseJson(text) ==
    CASE text = "{}" -> Some(EmptyObject)
      [] text = "{\"error\":\"\"}" -> Some(JsonObject(Some(""), Undefined))
      [] text = "{\"error\":\"Invalid API Key\"}" -> Some(JsonObject(Some("Invalid API Key"), Undefined))
      [] text = "{\"data\":[]}" -> Some(JsonObject(Undefined, Some("[]")))
      [] OTHER -> Undefined

\* The message of the SyntaxError response.json() throws on a non-JSON body.
JSON_SYNTAX_MESSAGE == "Unexpected end of JSON input"

\* ------------------------------------------------------ Retry-After header

Digits == <<"0", "1", "2", "3", "4", "5", "6", "7", "8", "9">>

IsDigit(c) == \E i \in 1..10 : Digits[i] = c

DigitValue(c) == (CHOOSE i \in 1..10 : Digits[i] = c) - 1

\* /^\d+$/.test(text)
AllDigits(text) == Len(text) > 0 /\ \A i \in 1..Len(text) : IsDigit(text[i])

RECURSIVE ParseInt(_)
\* parseInt(text, 10) of an all-digits text.
ParseInt(text) ==
    IF text = <<>> THEN 0
    ELSE 10 * ParseInt(SubSeq(text, 1, Len(text) - 1)) + DigitValue(text[Len(text)])

\* A Retry-After header as received: present or not, its text as characters,
\* and what Date.parse(text) - Date.now() evaluates to when the handler reads
\* it (Undefined when Date.parse gives NaN).
RetryAfterHeader(present, text, dateDelta) ==
    [present |-> present, text |-> text, dateDelta |-> dateDelta]

NoRetryAfter == RetryAfterHeader(FALSE, <<>>, Undefined)

DigitHeaders ==
    {RetryAfterHeader(TRUE, <<Digits[n + 1]>>, Undefined) : n \in 0..MaxRetryAfterSeconds}
        \cup {RetryAfterHeader(TRUE, <<"1", "0">>, Undefined)}

RetryAfterHeaders ==
    {NoRetryAfter,
     RetryAfterHeader(TRUE, <<>>, Undefined),
     RetryAfterHeader(TRUE, <<"2", "s">>, Undefined),
     RetryAfterHeader(TRUE, <<"D", "a", "t", "e">>, Some(1500)),
     RetryAfterHeader(TRUE, <<"D", "a", "t", "e">>, Some(-1000))}
        \cup DigitHeaders

\* ------------------------------------------------------------- responses

\* Statuses a fetch() Response can carry here.  Status 0 belongs to opaque and
\* error responses only, which fetch() with the default mode never resolves
\* with, so every status is a real HTTP status.
ResponseStatuses ==
    {200, 201, 204, 304, 400, 401, 403, 404, 422, 429, 500, 501, 502, 503, 504}

\* response.ok
Ok(status) == status >= 200 /\ status <= 299

Response(status, body, retryAfter) ==
    [status |-> status, body |-> body, retryAfter |-> retryAfter]

\* The Retry-After headers a server sends with a status: in every form with
\* 429, and present or absent with the retryable server errors.
RetryAfterFor(status) ==
    CASE status = 429 -> RetryAfterHeaders
      [] status \in {500, 502, 503, 504} ->
            {NoRetryAfter, RetryAfterHeader(TRUE, <<"2">>, Undefined)}
      [] OTHER -> {NoRetryAfter}

\* A Response with a null-body status has no body.
NULL_BODY_STATUSES == {204, 304}

BodiesFor(status) == IF status \in NULL_BODY_STATUSES THEN {""} ELSE BodyTexts

AllResponses ==
    UNION {{Response(s, b, ra) : b \in BodiesFor(s), ra \in RetryAfterFor(s)} :
              s \in ResponseStatuses}

\* A success, a client error and a retryable server error.
SampleResponses ==
    {Response(200, "{\"data\":[]}", NoRetryAfter),
     Response(404, "{\"error\":\"Invalid API Key\"}", NoRetryAfter),
     Response(503, "", NoRetryAfter)}

\* --------------------------------------------------------- error factory

PayArkError(name, message, statusCode, code, raw) ==
    [name |-> name, message |-> message, statusCode |-> statusCode,
     code |-> code, raw |-> raw]

\* Mutant: the classifier without the 403 and 0 cases.
generate_Legacy(status, data, message) ==
    PayArkError("PayArkError", Coalesce(message, ""), status,
        CASE status = 401 -> "authentication_error"
          [] status \in {400, 422} -> "invalid_request_error"
          [] status = 404 -> "not_found_error"
          [] status = 429 -> "rate_limit_error"
          [] OTHER -> IF status >= 500 THEN "api_error" ELSE "unknown_error",
        data)

\* PayArkError.generate(status, data, message): data is an optional JSON
\* value, message an optional string.
generate(status, data, message) ==
    LET dataError == IF IsDefined(data) THEN data[1].error ELSE Undefined
        msg == FirstTruthy(message, dataError,
                           "Request failed with status " \o ToString(status))
        raw == data
    IN  CASE status = 401 ->
               PayArkError("PayArkAuthenticationError", msg, 401, "authentication_error", raw)
          [] status = 403 ->
               PayArkError("PayArkPermissionError", msg, 403, "permission_error", raw)
          [] status \in {400, 422} ->
               PayArkError("PayArkInvalidRequestError", msg, status, "invalid_request_error", raw)
          [] status = 404 ->
               PayArkError("PayArkNotFoundError", msg, 404, "not_found_error", raw)
          [] status = 429 ->
               PayArkError("PayArkRateLimitError", msg, 429, "rate_limit_error", raw)
          [] status = 0 ->
               PayArkError("PayArkConnectionError", msg, 0, "connection_error", Undefined)
          [] OTHER ->
               IF status >= 500
               THEN PayArkError("PayArkAPIError", msg, status, "api_error", raw)
               ELSE PayArkError("PayArkError", msg, status, "unknown_error", raw)

\* new PayArkError("Request failed after retries", 0, "unknown_error")
FallbackError ==
    PayArkError("PayArkError", "Request failed after retries", 0, "unknown_error", Undefined)

\* ------------------------------------------------------- request helpers

\* Mutant: every server error is retried.
IsRetryable_All5xx(status) == status = 429 \/ status >= 500

\* RETRYABLE_STATUS_CODES.has(status)
IsRetryable(status) == status \in RETRYABLE_STATUS_CODES

\* Mutant: a key that does not change from one request to the next.
generateIdempotencyKey_Fixed(n) == "uuid-" \o ToString(0)

\* generateIdempotencyKey(): crypto.randomUUID().  The n-th draw of the random
\* source; its draws are pairwise different (the UUID uniqueness guarantee).
generateIdempotencyKey(n) == "uuid-" \o ToString(n)

\* Mutant: a key for every method.
IdempotencyKeyFor_EveryMethod(method, n) == Some(generateIdempotencyKey(n))

\* The idempotencyKey constant of request().
IdempotencyKeyFor(method, n) ==
    IF method \in MUTATING_METHODS THEN Some(generateIdempotencyKey(n)) ELSE Undefined

\* Mutant: on a collision the value already there is kept.
Assign_KeepExisting(headers, extra) ==
    [h \in DOMAIN headers \cup DOMAIN extra |->
        IF h \in DOMAIN headers THEN headers[h] ELSE extra[h]]

\* Object.assign(headers, extra) on header maps (functions name -> value).
Assign(headers, extra) ==
    [h \in DOMAIN headers \cup DOMAIN extra |->
        IF h \in DOMAIN extra THEN extra[h] ELSE headers[h]]

NoHeaders == [h \in {} |-> ""]

\* buildHeaders(extra, idempotencyKey) of a client with this apiKey and sandbox
\* flag; extra is an optional header map.
buildHeaders(apiKey, sandbox, extra, idempotencyKey) ==
    LET base == [h \in {"Authorization", "Content-Type", "Accept", "User-Agent"} |->
                    CASE h = "Authorization" -> "Bearer " \o apiKey
                      [] h = "Content-Type" -> "application/json"
                      [] h = "Accept" -> "application/json"
                      [] OTHER -> "payark-sdk-node/0.1.0"]
        withKey == IF Truthy(idempotencyKey)
                   THEN Assign(base, [h \in {"Idempotency-Key"} |-> idempotencyKey[1]])
                   ELSE base
        withSandbox == IF sandbox
                       THEN Assign(withKey, [h \in {"x-sandbox-mode"} |-> "true"])
                       ELSE withKey
    IN  IF IsDefined(extra) THEN Assign(withSandbox, extra[1]) ELSE withSandbox

\* Mutant: the header is read on every status.
RetryAfterMs_AnyStatus(response, declared) ==
    LET h == response.retryAfter
    IN  IF h.present /\ h.text # <<>>
        THEN IF AllDigits(h.text) THEN ParseInt(h.text) * 1000
             ELSE IF IsDefined(h.dateDelta) THEN Max(0, h.dateDelta[1])
             ELSE declared
        ELSE declared

\* Mutant: the seconds are not converted to milliseconds.
RetryAfterMs_Seconds(response, declared) ==
    LET h == response.retryAfter
    IN  IF response.status = 429 /\ h.present /\ h.text # <<>>
        THEN IF AllDigits(h.text) THEN ParseInt(h.text)
             ELSE IF IsDefined(h.dateDelta) THEN Max(0, h.dateDelta[1])
             ELSE declared
        ELSE declared

\* retryAfterMs after the Retry-After handling of a response, `declared` being
\* its value before: the 429 branch assigns it when the header is present and
\* is all digits or a date that Date.parse accepts, and nothing else does.
RetryAfterMs(response, declared) ==
    LET h == response.retryAfter
    IN  IF response.status = 429 /\ h.present /\ h.text # <<>>
        THEN IF AllDigits(h.text) THEN ParseInt(h.text) * 1000
             ELSE IF IsDefined(h.dateDelta) THEN Max(0, h.dateDelta[1])
             ELSE declared
        ELSE declared

\* Mutant: retryAfterMs is declared before the loop and keeps its value from
\* one iteration to the next.
DeclaredRetryAfterMs_BeforeLoop(stale) == stale

\* let retryAfterMs = 0, at the top of each iteration.
DeclaredRetryAfterMs(stale) == 0

\* Mutant: a product in place of the power.
Backoff_Linear(attempt, jitter) == BACKOFF_BASE_MS * 2 * attempt + jitter

\* 500 * Math.pow(2, attempt) + Math.random() * 200, jitter = Math.random() * 200.
Backoff(attempt, jitter) == BACKOFF_BASE_MS * 2^attempt + jitter

\* Math.random() * 200 lies in [0, 200); the two ends and the middle of the range.
JitterValues == {0, JITTER_MS \div 2, JITTER_MS - 1}

\* The delay passed to sleep() after the attempt with this index.
SleepDelay(retryAfterMs, attempt, jitter) ==
    IF retryAfterMs > 0 THEN retryAfterMs ELSE Backoff(attempt, jitter)

\* Mutant: one retry short.
AttemptsRemain_OffByOne(attempt, retries) == attempt + 1 < retries

\* Mutant: a sleep follows every failed attempt, the last one included.
AttemptsRemain_Always(attempt, retries) == TRUE

\* The condition guarding the sleep: attempt < this.maxRetries.
AttemptsRemain(attempt, retries) == attempt < retries

\* Mutant: the catch block swallows the error thrown inside the try block.
ShouldRethrow_Never(error) == FALSE

\* The catch block's test on a caught PayArkError.
ShouldRethrow(error) == error.statusCode > 0 /\ ~IsRetryable(error.statusCode)

\* Mutant: the first error is kept.
RecordError_KeepFirst(previous, error) ==
    IF IsDefined(previous) THEN previous ELSE Some(error)

\* The value lastError holds after an attempt has produced `error`.
RecordError(previous, error) == Some(error)

\* Mutant: the body of a 204 response is parsed like any other.
SuccessValue_AlwaysParse(r) == ParseJson(r.body)

\* Mutant: an empty object for every success.
SuccessValue_Empty(r) == Some(EmptyObject)

\* What the 2xx branch returns: {} for 204, else response.json(), which is
\* Undefined when it throws.
SuccessValue(r) == IF r.status = 204 THEN Some(EmptyObject) ELSE ParseJson(r.body)

\* -------------------------------------------------- client configuration

\* Texts that are inspected character by character are sequences of
\* one-character strings; Join gives the string of such a text.
RECURSIVE Join(_)
Join(text) == IF text = <<>> THEN "" ELSE text[1] \o Join(Tail(text))

\* The characters String.prototype.trim() strips.
Whitespace == {" ", "\t", "\n"}

RECURSIVE TrimStart(_)
TrimStart(text) ==
    IF text # <<>> /\ text[1] \in Whitespace THEN TrimStart(Tail(text)) ELSE text

RECURSIVE TrimEnd(_)
TrimEnd(text) ==
    IF text # <<>> /\ text[Len(text)] \in Whitespace
    THEN TrimEnd(SubSeq(text, 1, Len(text) - 1)) ELSE text

\* text.trim()
Trim(text) == TrimEnd(TrimStart(text))

\* Mutant: only the empty key is refused.
ApiKeyMissing_EmptyOnly(key) == ~IsDefined(key) \/ key[1] = <<>>

\* !config.apiKey || config.apiKey.trim().length === 0, on an optional text.
ApiKeyMissing(key) == ~IsDefined(key) \/ key[1] = <<>> \/ Len(Trim(key[1])) = 0

\* The message of the constructor's error, without its back-quotes.
API_KEY_REQUIRED == "An API key is required. Pass it as apiKey in the PayArk config."

\* A URL text is a sequence of tokens: a scheme ("https:"), "/" and names.
DEFAULT_BASE_URL == <<"https:", "/", "/", "api.payark.com">>

Schemes == {"https:", "http:"}

RECURSIVE StripTrailingSlashes(_)
\* url.replace(/\/+$/, "")
StripTrailingSlashes(url) ==
    IF url # <<>> /\ url[Len(url)] = "/"
    THEN StripTrailingSlashes(SubSeq(url, 1, Len(url) - 1)) ELSE url

\* An error that is not a PayArkError: it has a name and a message only.
JsError(name, message) == [name |-> name, message |-> message]

INVALID_URL == JsError("TypeError", "Invalid URL")

\* new URL(text) without a base: Undefined when the constructor throws, which
\* it does on a text that does not start with a scheme.
NewURL(text) ==
    IF Len(text) >= 2 /\ text[1] \in Schemes THEN Some(text) ELSE Undefined

\* The path the resources request.
API_PATH == <<"/", "v1", "/", "payments">>

\* buildUrl(path, query): the query parameters never make it throw.
buildUrl(base, path) == NewURL(base \o path)

\* Mutant: the per-call timeout is ignored.
RequestTimeoutFor_Configured(option, configured) == configured

\* opts.timeout ?? this.timeout
RequestTimeoutFor(option, configured) == Coalesce(option, configured)

\* A PayArkConfig as handed to the constructor.
PayArkConfig(key, retries, sb, base) ==
    [apiKey |-> key, maxRetries |-> retries, sandbox |-> sb, baseUrl |-> base]

SK_TEST_KEY == <<"s", "k", "_", "t", "e", "s", "t", "_", "1", "2", "3">>

\* ------------------------------------------------------------------ state

VARIABLES
    apiKey,          \* this.apiKey
    maxRetries,      \* this.maxRetries
    timeout,         \* this.timeout
    sandbox,         \* this.sandbox
    given,           \* optional: the PayArkConfig the constructor was called with
    baseUrl,         \* this.baseUrl, as URL tokens
    pc,              \* where the current request() call stands
    method,          \* baseInit.method
    extraHeaders,    \* opts.headers (optional)
    timeoutOption,   \* opts.timeout (optional)
    headers,         \* baseInit.headers, built once per request() call
    initBody,        \* baseInit.body (optional), built once per request() call
    requestTimeout,  \* opts.timeout ?? this.timeout
    attempt,         \* the loop variable
    retryAfterMs,    \* the loop-local retryAfterMs
    lastError,       \* optional PayArkError
    timers,          \* the attempts whose setTimeout is pending
    result,          \* optional value request() resolved with
    thrown,          \* optional error request() rejected with
    calls,           \* the fetch() calls of the current request, in order
    response,        \* optional: the Response the latest call resolved with
    outcome,         \* how the latest call ended
    retryableSeen,   \* calls of the current request answered with 429/500/502/503/504
    faultsSeen,      \* calls of the current request that ended in a transport fault
    sleepCount,      \* sleep() calls of the current request
    lastSleep,       \* optional: the latest sleep() call of the current request
    draws,           \* number of random keys drawn so far
    requests,        \* number of logical requests started so far
    priorKeys,       \* Idempotency-Key values sent by earlier mutating requests
    settled,         \* fetch() calls of the request that resolved or rejected
    parked,          \* the other call of request(): its position, locals and history
    wpc,             \* where the current constructEvent() call stands
    rawBody,         \* constructEvent's rawBody
    signatureHeader, \* constructEvent's signatureHeader, as characters
    secret,          \* constructEvent's secret
    tolerance,       \* constructEvent's toleranceSeconds (optional)
    nowMs,           \* Date.now() when verifySignature reads the clock
    steps,           \* the steps the current constructEvent() call has taken
    event,           \* optional value constructEvent() resolved with
    rejected,        \* optional error constructEvent() rejected with
    verifications,   \* number of constructEvent() calls started so far
    previous,        \* optional: the arguments and the outcome of the call before
    genInput,        \* the arguments of a PayArkError.generate() call
    genError,        \* optional: the error that call returned
    fields,          \* per PayArk client, its _checkout, _payments, _projects fields
    objects,         \* number of resource wrappers constructed so far
    constructed,     \* per client and accessor, the wrappers it constructed
    firstAccess,     \* per client and accessor, what its first access returned
    lastAccess,      \* optional: the latest access and what it returned
    accessCount,     \* number of accesses so far
    cmpA,            \* constantTimeEqual: its first argument
    cmpB,            \* constantTimeEqual: its second argument
    cmpResult,       \* optional: the value the call returned
    cmpSteps         \* loop iterations the call performed

config == <<given, apiKey, maxRetries, timeout, sandbox, baseUrl>>

local == <<method, extraHeaders, timeoutOption, headers, initBody, requestTimeout, attempt, retryAfterMs, lastError,
           timers, result, thrown>>

ghost == <<calls, response, outcome, retryableSeen, faultsSeen, sleepCount,
           lastSleep, draws, requests, priorKeys, settled>>

webhook == <<wpc, rawBody, signatureHeader, secret, tolerance, nowMs, steps, event, rejected,
             verifications, previous>>

factory == <<genInput, genError>>

\* What the transport leaves alone: the static webhooks resource and the
\* static error factory.
client == <<fields, objects, constructed, firstAccess, lastAccess, accessCount>>

comparison == <<cmpA, cmpB, cmpResult, cmpSteps>>

static == <<webhook, factory, client, comparison>>

\* What the static parts leave alone.
transport == <<config, pc, local, ghost, parked>>

vars == <<transport, static>>

\* PayArkConfig.maxRetries handed to the constructor.  It is any number: the
\* constructor does not validate it.
ConfigMaxRetries == {Undefined} \cup {Some(n) : n \in -1..MaxRetriesBound}

\* opts.headers of a call.
ExtraHeaders ==
    {Undefined,
     Some([h \in {"Idempotency-Key"} |-> "caller-key"]),
     Some([h \in {"Authorization"} |-> "Bearer other"]),
     Some([h \in {"Content-Type", "x-sandbox-mode"} |->
              IF h = "Content-Type" THEN "text/plain" ELSE "false"])}

\* opts.timeout of a call.
TimeoutOptions == {Undefined, Some(1000)}

\* method of the calls that are made without options.
PlainMethods == {"GET", "POST"}

\* opts.body of a call: absent, or a value to serialise.
BodyOptions == {Undefined, Some([amount |-> 100]), Some([amount |-> 250])}

\* JSON.stringify of such a value.
JsonStringify(value) == "{\"amount\":" \o ToString(value.amount) \o "}"

\* baseInit.body: set when opts.body !== undefined && method !== "GET".
BaseInitBody(m, optsBody) ==
    IF IsDefined(optsBody) /\ m # "GET" THEN Some(JsonStringify(optsBody[1]))
    ELSE Undefined

\* Mutant: the body goes out with the first attempt only.
FetchInit_BodyOnce(url, m, h, b, k) ==
    [url |-> url, method |-> m, headers |-> h,
     body |-> IF k = 0 THEN b ELSE Undefined, signal |-> k]

\* The arguments of one fetch() call: url.toString() and
\* { ...baseInit, signal: controller.signal }, the controller being the one
\* attempt k has constructed.
FetchInit(url, m, h, b, k) ==
    [url |-> url, method |-> m, headers |-> h, body |-> b, signal |-> k]

\* The sets the steps of a request draw their inputs from.
RequestInputs ==
    <<PlainMethods, HttpMethod, ExtraHeaders, TimeoutOptions, AllResponses,
      SampleResponses, JitterValues, BodyOptions>>

\* A call of request() that has not been made: its position, its locals and
\* its history.
IdleCall ==
    [pc |-> "idle", method |-> "GET", extraHeaders |-> Undefined,
     timeoutOption |-> Undefined, headers |-> NoHeaders, initBody |-> Undefined,
     requestTimeout |-> 0,
     attempt |-> 0, retryAfterMs |-> 0, lastError |-> Undefined, timers |-> {},
     result |-> Undefined, thrown |-> Undefined, calls |-> <<>>,
     response |-> Undefined, outcome |-> "none", retryableSeen |-> 0,
     faultsSeen |-> 0, sleepCount |-> 0, lastSleep |-> Undefined, settled |-> 0]

\* No request() call has been made.  The inputs of its steps are finite sets,
\* none of them empty.
RequestIdle ==
    /\ \A i \in DOMAIN RequestInputs : Cardinality(RequestInputs[i]) > 0
    /\ parked = IdleCall
    /\ method = "GET"
    /\ extraHeaders = Undefined
    /\ timeoutOption = Undefined
    /\ headers = NoHeaders
    /\ initBody = Undefined
    /\ requestTimeout = 0
    /\ attempt = 0
    /\ retryAfterMs = 0
    /\ lastError = Undefined
    /\ timers = {}
    /\ result = Undefined
    /\ thrown = Undefined
    /\ calls = <<>>
    /\ response = Undefined
    /\ outcome = "none"
    /\ retryableSeen = 0
    /\ faultsSeen = 0
    /\ sleepCount = 0
    /\ lastSleep = Undefined
    /\ draws = 0
    /\ requests = 0
    /\ priorKeys = {}
    /\ settled = 0

\* No constructEvent() call has been made.
WebhookIdle ==
    /\ wpc = "idle"
    /\ rawBody = ""
    /\ signatureHeader = <<>>
    /\ secret = ""
    /\ tolerance = Undefined
    /\ nowMs = 0
    /\ steps = <<>>
    /\ event = Undefined
    /\ rejected = Undefined
    /\ verifications = 0
    /\ previous = Undefined

\* No generate() call is being examined.
FactoryIdle ==
    /\ genInput = Undefined
    /\ genError = Undefined

\* Bound: PayArk client instances.
MaxClients == 2

\* Bound: accesses to resource accessors per behaviour.
MaxAccesses == 4

Clients == 1..MaxClients

\* The resource accessors of a PayArk client.
Accessors == {"checkout", "payments", "projects"}

\* No accessor of any client has been read: the private fields are unset.
ClientIdle ==
    /\ fields = [c \in Clients |-> [a \in Accessors |-> Undefined]]
    /\ objects = 0
    /\ constructed = [c \in Clients |-> [a \in Accessors |-> 0]]
    /\ firstAccess = [c \in Clients |-> [a \in Accessors |-> Undefined]]
    /\ lastAccess = Undefined
    /\ accessCount = 0

\* No comparison is under way.
ComparisonIdle ==
    /\ cmpA = <<>>
    /\ cmpB = <<>>
    /\ cmpResult = Undefined
    /\ cmpSteps = 0

StaticIdle == WebhookIdle /\ FactoryIdle /\ ClientIdle /\ ComparisonIdle

\* The fields constructor(config) assigns when the key passes the check.
Assigned(c) ==
    [apiKey |-> Join(Trim(c.apiKey[1])),
     baseUrl |-> StripTrailingSlashes(Coalesce(c.baseUrl, DEFAULT_BASE_URL)),
     timeout |-> Coalesce(Undefined, DEFAULT_TIMEOUT),
     maxRetries |-> Coalesce(c.maxRetries, DEFAULT_MAX_RETRIES),
     sandbox |-> Coalesce(c.sandbox, FALSE)]

\* constructor(config) with a key that passes the check and this sandbox option.
Construct(sandboxOptions) ==
    /\ \E r \in ConfigMaxRetries, sb \in sandboxOptions :
        /\ given = Some(PayArkConfig(Some(SK_TEST_KEY), r, sb, Undefined))
        /\ apiKey = Assigned(given[1]).apiKey
        /\ baseUrl = Assigned(given[1]).baseUrl
        /\ timeout = Assigned(given[1]).timeout
        /\ maxRetries = Assigned(given[1]).maxRetries
        /\ sandbox = Assigned(given[1]).sandbox
    /\ pc = "idle"
    /\ RequestIdle
    /\ StaticIdle

Init == Construct({Undefined})

\* ---------------------------------------------------------------- actions

\* The Idempotency-Key header values a header map carries.
KeysIn(h) == IF "Idempotency-Key" \in DOMAIN h THEN {h["Idempotency-Key"]} ELSE {}

\* throw lastError ?? new PayArkError("Request failed after retries", ...)
ThrowLast(last) ==
    /\ pc' = "raised"
    /\ thrown' = Some(Coalesce(last, FallbackError))

\* Mutant: the attempt issues fetch() twice without awaiting the first call.
IssueFetch_Twice(issued, call) == Append(Append(issued, call), call)

\* const response = await fetch(url, init): one call per loop iteration.
IssueFetch(issued, call) == Append(issued, call)

\* Mutant: no timer is armed.
ArmTimer_Never(pending, k) == pending

\* const timer = setTimeout(() => controller.abort(), requestTimeout), by
\* attempt k.
ArmTimer(pending, k) == pending \cup {k}

\* Mutant: clearTimeout is not called.
ClearTimer_Never(pending, k) == pending

\* clearTimeout(timer), by attempt k, after the await and in the catch block.
ClearTimer(pending, k) == pending \ {k}

\* request(method, path, opts) up to its first await.  buildUrl runs first
\* and outside the try block: when new URL() throws, the call rejects with
\* that TypeError before anything else is computed.
Request(methods, extras, timeouts, bodies) ==
    /\ pc \in {"idle", "returned", "raised"}
    /\ requests < MaxRequests
    /\ \E m \in methods, extra \in extras, t \in timeouts, b \in bodies :
        LET key == IdempotencyKeyFor(m, draws + 1)
        IN  /\ method' = m
            /\ extraHeaders' = extra
            /\ timeoutOption' = t
            /\ IF IsDefined(buildUrl(baseUrl, API_PATH))
               THEN /\ headers' = buildHeaders(apiKey, sandbox, extra, key)
                    /\ initBody' = BaseInitBody(m, b)
                    /\ requestTimeout' = RequestTimeoutFor(t, timeout)
                    /\ draws' = IF IsDefined(key) THEN draws + 1 ELSE draws
               ELSE /\ headers' = NoHeaders
                    /\ initBody' = Undefined
                    /\ requestTimeout' = 0
                    /\ UNCHANGED draws
    /\ requests' = requests + 1
    /\ priorKeys' = IF method \in MUTATING_METHODS /\ calls # <<>>
                    THEN priorKeys \cup KeysIn(headers) ELSE priorKeys
    /\ attempt' = 0
    /\ settled' = 0
    /\ retryAfterMs' = 0
    /\ lastError' = Undefined
    /\ result' = Undefined
    /\ response' = Undefined
    /\ outcome' = "none"
    /\ retryableSeen' = 0
    /\ faultsSeen' = 0
    /\ sleepCount' = 0
    /\ lastSleep' = Undefined
    /\ IF ~IsDefined(buildUrl(baseUrl, API_PATH))
       THEN /\ pc' = "raised"
            /\ thrown' = Some(INVALID_URL)
            /\ calls' = <<>>
            /\ timers' = timers
       ELSE IF 0 <= maxRetries
       THEN /\ calls' = IssueFetch(<<>>,
                            FetchInit(buildUrl(baseUrl, API_PATH)[1], method',
                                      headers', initBody', 0))
            /\ timers' = ArmTimer(timers, 0)
            /\ pc' = "fetching"
            /\ thrown' = Undefined
       ELSE /\ ThrowLast(Undefined)
            /\ calls' = <<>>
            /\ timers' = timers
    /\ UNCHANGED <<static, config, parked>>

\* The end of a loop iteration that did not return or throw: the sleep when
\* attempts remain, else the loop ends and the last error is thrown.
EndOfIteration(error, ra) ==
    /\ lastError' = RecordError(lastError, error)
    /\ retryAfterMs' = ra
    /\ IF AttemptsRemain(attempt, maxRetries)
       THEN /\ \E jitter \in JitterValues :
                lastSleep' = Some([delay |-> SleepDelay(ra, attempt, jitter),
                                   attempt |-> attempt, retryAfterMs |-> ra,
                                   afterDirected |-> /\ IsDefined(lastSleep)
                                                     /\ lastSleep[1].retryAfterMs > 0])
            /\ sleepCount' = sleepCount + 1
            /\ pc' = "sleeping"
            /\ UNCHANGED thrown
       ELSE /\ ThrowLast(lastError')
            /\ UNCHANGED <<lastSleep, sleepCount>>
    /\ UNCHANGED result

\* The catch block on a caught PayArkError.
CatchPayArkError(error, ra) ==
    IF ShouldRethrow(error)
    THEN /\ lastError' = RecordError(lastError, error)
         /\ retryAfterMs' = ra
         /\ pc' = "raised"
         /\ thrown' = Some(error)
         /\ UNCHANGED <<result, lastSleep, sleepCount>>
    ELSE EndOfIteration(error, ra)

\* The catch block on an error that is neither a PayArkError nor an AbortError.
CatchOther(message) ==
    EndOfIteration(generate(0, Undefined, Some("Network error: " \o message)),
                   retryAfterMs)

\* The catch block on an AbortError.
CatchAbort ==
    EndOfIteration(
        generate(0, Undefined,
            Some("Request timed out after " \o ToString(requestTimeout) \o "ms")),
        retryAfterMs)

\* The iteration after clearTimeout, on the Response r: the status test, the
\* reading of the body, and the return, the throw or the end of the iteration.
HandleResponse(r) ==
    LET parsed == ParseJson(r.body)
    IN  IF Ok(r.status)
        THEN IF IsDefined(SuccessValue(r))
             THEN /\ pc' = "returned"
                  /\ result' = SuccessValue(r)
                  /\ outcome' = "success"
                  /\ UNCHANGED <<lastError, retryAfterMs, thrown, lastSleep, sleepCount>>
             ELSE /\ outcome' = "unparsed"
                  /\ CatchOther(JSON_SYNTAX_MESSAGE)
        ELSE LET errorBody == parsed
                 error == generate(r.status, errorBody,
                              IF IsDefined(errorBody) THEN errorBody[1].error
                              ELSE Undefined)
                 ra == RetryAfterMs(r, retryAfterMs)
             IN  /\ outcome' = "error"
                 /\ IF ~IsRetryable(r.status)
                    THEN CatchPayArkError(error, ra)
                    ELSE EndOfIteration(error, ra)

\* fetch() resolves with a Response: the rest of the iteration.
FetchResponse(responses) ==
    /\ pc = "fetching"
    /\ \E r \in responses :
        /\ response' = Some(r)
        /\ retryableSeen' = IF r.status \in {429, 500, 502, 503, 504}
                            THEN retryableSeen + 1 ELSE retryableSeen
        /\ HandleResponse(r)
    /\ timers' = ClearTimer(timers, attempt)
    /\ UNCHANGED <<static, config, parked, method, extraHeaders, timeoutOption, headers, initBody, requestTimeout, attempt, calls,
                   faultsSeen, draws, requests, priorKeys>>
    /\ settled' = settled + 1

\* fetch() resolves with a Response and the timer is cleared; the request
\* goes on to read the body, which is a second await that no timer guards.
ResponseArrives(responses) ==
    /\ pc = "fetching"
    /\ \E r \in responses :
        /\ response' = Some(r)
        /\ retryableSeen' = IF r.status \in {429, 500, 502, 503, 504}
                            THEN retryableSeen + 1 ELSE retryableSeen
    /\ pc' = "reading"
    /\ timers' = ClearTimer(timers, attempt)
    /\ settled' = settled + 1
    /\ UNCHANGED <<static, config, parked, method, extraHeaders, timeoutOption, headers, initBody, requestTimeout, attempt, calls,
                   faultsSeen, draws, requests, priorKeys, outcome, lastError,
                   retryAfterMs, thrown, lastSleep, sleepCount, result>>

\* The body of the Response has been delivered: response.json() settles and
\* the iteration goes on.
BodyRead ==
    /\ pc = "reading"
    /\ HandleResponse(response[1])
    /\ UNCHANGED <<static, config, parked, method, extraHeaders, timeoutOption, headers, initBody, requestTimeout, attempt, calls,
                   faultsSeen, draws, requests, priorKeys, response, retryableSeen,
                   timers, settled>>

\* The timer of the attempt fires and is no longer pending; controller.abort()
\* makes fetch() reject with an AbortError, and the catch block clears the
\* timer that has fired.
FetchAbort ==
    /\ pc = "fetching"
    /\ attempt \in timers
    /\ response' = Undefined
    /\ outcome' = "abort"
    /\ faultsSeen' = faultsSeen + 1
    /\ CatchAbort
    /\ timers' = ClearTimer(timers \ {attempt}, attempt)
    /\ UNCHANGED <<static, config, parked, method, extraHeaders, timeoutOption, headers, initBody, requestTimeout, attempt, calls,
                   retryableSeen, draws, requests, priorKeys>>
    /\ settled' = settled + 1

\* fetch() rejects with a network error (DNS failure, connection refused, ...).
FetchNetworkError ==
    /\ pc = "fetching"
    /\ response' = Undefined
    /\ outcome' = "network"
    /\ faultsSeen' = faultsSeen + 1
    /\ CatchOther("fetch failed")
    /\ timers' = ClearTimer(timers, attempt)
    /\ UNCHANGED <<static, config, parked, method, extraHeaders, timeoutOption, headers, initBody, requestTimeout, attempt, calls,
                   retryableSeen, draws, requests, priorKeys>>
    /\ settled' = settled + 1

\* sleep(delay) resolves: attempt++, the loop test, the next fetch().
SleepDone ==
    /\ pc = "sleeping"
    /\ attempt' = attempt + 1
    /\ IF attempt + 1 <= maxRetries
       THEN /\ calls' = IssueFetch(calls,
                            FetchInit(buildUrl(baseUrl, API_PATH)[1], method,
                                      headers, initBody, attempt + 1))
            /\ timers' = ArmTimer(timers, attempt + 1)
            /\ retryAfterMs' = DeclaredRetryAfterMs(retryAfterMs)
            /\ pc' = "fetching"
            /\ UNCHANGED thrown
       ELSE /\ ThrowLast(lastError)
            /\ UNCHANGED <<calls, timers, retryAfterMs>>
    /\ UNCHANGED <<static, config, parked, method, extraHeaders, timeoutOption, headers, initBody, requestTimeout, lastError, result,
                   response, outcome, retryableSeen, faultsSeen, sleepCount,
                   lastSleep, draws, requests, priorKeys, settled>>

\* Requests without options, every response the server can send.
Next ==
    \/ Request(PlainMethods, {Undefined}, {Undefined}, {Undefined})
    \/ FetchResponse(AllResponses)
    \/ FetchAbort
    \/ FetchNetworkError
    \/ SleepDone

Spec == Init /\ [][Next]_vars

\* Every method and every option of a call, on clients with and without the
\* sandbox flag, against a server that answers with the sample responses.
InitOptions == Construct({Undefined, Some(TRUE)})

NextOptions ==
    \/ Request(HttpMethod, ExtraHeaders, TimeoutOptions, {Undefined})
    \/ FetchResponse(SampleResponses)
    \/ FetchAbort
    \/ FetchNetworkError
    \/ SleepDone

SpecOptions == InitOptions /\ [][NextOptions]_vars

\* Calls with and without a body, on clients with and without the sandbox
\* flag, against a server that answers with the sample responses.
NextBodies ==
    \/ Request(PlainMethods, {Undefined}, {Undefined}, BodyOptions)
    \/ FetchResponse(SampleResponses)
    \/ FetchAbort
    \/ FetchNetworkError
    \/ SleepDone

SpecBodies == InitOptions /\ [][NextBodies]_vars

\* Mutant: the loop counter is a field of the transport, shared by its calls.
ResumeAttempt_Shared(own, other) == other

\* for (let attempt = 0; ...): the counter is a local of the call, so a call
\* that resumes after an await finds the value it suspended with, whatever
\* another call has counted meanwhile.
ResumeAttempt(own, other) == own

\* The call the variables describe, as it stands at an await.
Suspended ==
    [pc |-> pc, method |-> method, extraHeaders |-> extraHeaders,
     timeoutOption |-> timeoutOption, headers |-> headers, initBody |-> initBody,
     requestTimeout |-> requestTimeout, attempt |-> attempt,
     retryAfterMs |-> retryAfterMs, lastError |-> lastError, timers |-> timers,
     result |-> result, thrown |-> thrown, calls |-> calls,
     response |-> response, outcome |-> outcome, retryableSeen |-> retryableSeen,
     faultsSeen |-> faultsSeen, sleepCount |-> sleepCount,
     lastSleep |-> lastSleep, settled |-> settled]

\* The event loop turns to the other call of request() on the transport:
\* the running call stays at its await (or at its end) and the other call's
\* next step is the next to run.  The calls share the transport's fields
\* and the source of idempotency keys and nothing else.
Switch ==
    /\ pc \in {"idle", "fetching", "sleeping", "returned", "raised"}
    /\ parked' = Suspended
    /\ pc' = parked.pc
    /\ method' = parked.method
    /\ extraHeaders' = parked.extraHeaders
    /\ timeoutOption' = parked.timeoutOption
    /\ headers' = parked.headers
    /\ initBody' = parked.initBody
    /\ requestTimeout' = parked.requestTimeout
    /\ attempt' = ResumeAttempt(parked.attempt, attempt)
    /\ retryAfterMs' = parked.retryAfterMs
    /\ lastError' = parked.lastError
    /\ timers' = parked.timers
    /\ result' = parked.result
    /\ thrown' = parked.thrown
    /\ calls' = parked.calls
    /\ response' = parked.response
    /\ outcome' = parked.outcome
    /\ retryableSeen' = parked.retryableSeen
    /\ faultsSeen' = parked.faultsSeen
    /\ sleepCount' = parked.sleepCount
    /\ lastSleep' = parked.lastSleep
    /\ settled' = parked.settled
    /\ UNCHANGED <<static, config, draws, requests, priorKeys>>

\* Two calls of request() on one transport, their steps interleaved.
NextConcurrent ==
    \/ Request(PlainMethods, {Undefined}, {Undefined}, {Undefined})
    \/ FetchResponse(SampleResponses)
    \/ FetchAbort
    \/ FetchNetworkError
    \/ SleepDone
    \/ Switch

SpecConcurrent == Init /\ [][NextConcurrent]_vars

\* Requests whose awaits are separate steps: the Response first, its body
\* after it.  The timer of an attempt fires while the attempt is in flight,
\* the delivery of a Response that has arrived completes, and a sleep ends.
NextLive ==
    \/ Request(PlainMethods, {Undefined}, {Undefined}, {Undefined})
    \/ ResponseArrives(SampleResponses)
    \/ BodyRead
    \/ FetchAbort
    \/ FetchNetworkError
    \/ SleepDone

Fairness == WF_vars(FetchAbort) /\ WF_vars(BodyRead) /\ WF_vars(SleepDone)

SpecLive == Init /\ [][NextLive]_vars /\ Fairness

\* ------------------------------------------------------- the constructor

\* config.apiKey values: missing, empty, blank, and keys with and without
\* surrounding whitespace.
ConfigApiKeys ==
    {Undefined, Some(<<>>), Some(<<" ">>), Some(<<" ", "\t", " ">>),
     Some(<<"s", "k">>), Some(<<" ", "s", "k", "\n">>), Some(<<"s", " ", "k">>)}

\* config.baseUrl values: the default, a URL with trailing slashes, and a
\* host name without a scheme.
ConfigBaseUrls ==
    {Undefined,
     Some(<<"http:", "/", "/", "localhost:3001", "/", "/">>),
     Some(<<"api.payark.com">>)}

\* No client has been constructed.
NoClient ==
    /\ given = Undefined
    /\ apiKey = ""
    /\ baseUrl = <<>>
    /\ timeout = 0
    /\ maxRetries = 0
    /\ sandbox = FALSE
    /\ pc = "new"
    /\ RequestIdle

\* new HttpClient(config): it throws on a missing key, else assigns the fields.
NewHttpClient(keys, retries, baseUrls) ==
    /\ pc = "new"
    /\ \E k \in keys, r \in retries, b \in baseUrls :
        /\ given' = Some(PayArkConfig(k, r, Undefined, b))
        /\ IF ApiKeyMissing(k)
           THEN /\ thrown' = Some(generate(401, Undefined, Some(API_KEY_REQUIRED)))
                /\ pc' = "failed"
                /\ UNCHANGED <<apiKey, baseUrl, timeout, maxRetries, sandbox>>
           ELSE /\ apiKey' = Assigned(given'[1]).apiKey
                /\ baseUrl' = Assigned(given'[1]).baseUrl
                /\ timeout' = Assigned(given'[1]).timeout
                /\ maxRetries' = Assigned(given'[1]).maxRetries
                /\ sandbox' = Assigned(given'[1]).sandbox
                /\ pc' = "idle"
                /\ UNCHANGED thrown
    /\ UNCHANGED <<static, ghost, parked, method, extraHeaders, timeoutOption, headers, initBody, requestTimeout,
                   attempt, retryAfterMs, lastError, timers, result>>

InitConstruct == NoClient /\ StaticIdle

\* A client is constructed from any configuration and then used.
NextConstruct ==
    \/ NewHttpClient(ConfigApiKeys, {Undefined, Some(0), Some(1)}, ConfigBaseUrls)
    \/ Request(PlainMethods, {Undefined}, {Undefined}, {Undefined})
    \/ FetchResponse(SampleResponses)
    \/ FetchAbort
    \/ FetchNetworkError
    \/ SleepDone

SpecConstruct == InitConstruct /\ [][NextConstruct]_vars

\* ------------------------------------------------------ the error factory

\* Statuses handed to PayArkError.generate: every case of the switch, both
\* sides of its >= 500 test, and integers that are no HTTP status.
GenerateStatuses ==
    {-1, 0, 1, 100, 199, 200, 204, 301, 304, 399, 400, 401, 402, 403, 404, 418, 422,
     429, 499, 500, 501, 503, 599, 600, 999}

GenerateData ==
    {Undefined, Some(EmptyObject), Some(JsonObject(Some(""), Undefined)),
     Some(JsonObject(Some("Invalid API Key"), Undefined))}

GenerateMessages == {Undefined, Some(""), Some("Custom message")}

InitGenerate ==
    /\ NoClient
    /\ WebhookIdle
    /\ ClientIdle
    /\ ComparisonIdle
    /\ genInput \in {Some([status |-> st, data |-> d, message |-> m]) :
                        st \in GenerateStatuses, d \in GenerateData, m \in GenerateMessages}
    /\ genError = Undefined

\* PayArkError.generate(status, data, message) is called.
Generate ==
    /\ IsDefined(genInput)
    /\ ~IsDefined(genError)
    /\ genError' = Some(generate(genInput[1].status, genInput[1].data, genInput[1].message))
    /\ UNCHANGED <<transport, webhook, client, comparison, genInput>>

NextGenerate == Generate

SpecGenerate == InitGenerate /\ [][NextGenerate]_vars

\* ---------------------------------------------------------------- webhooks

\* Bound: constructEvent() calls per behaviour.
MaxVerifications == 2

\* Bound: the number of hex characters of a digest.
DigestLength == 8

DEFAULT_TOLERANCE_SECONDS == 300

PayArkSignatureVerificationError(message) ==
    PayArkError("PayArkSignatureVerificationError", message, 400,
                "invalid_request_error", Undefined)

HEADER_UNPARSEABLE == "Unable to extract timestamp and signature from header"

TIMESTAMP_OUTSIDE == "Timestamp outside the tolerance zone"

\* Mutant: the message names the secret.
SIGNATURE_MISMATCH_NamingSecret == "Signature did not match for " \o secret

SIGNATURE_MISMATCH == "Signature did not match"

Abs(n) == IF n < 0 THEN -n ELSE n

RECURSIVE DecimalChars(_)
\* `${n}` of an integer, as characters.
DecimalChars(n) ==
    IF n < 0 THEN <<"-">> \o DecimalChars(-n)
    ELSE IF n < 10 THEN <<Digits[n + 1]>>
    ELSE DecimalChars(n \div 10) \o <<Digits[(n % 10) + 1]>>

RECURSIVE Split(_, _)
\* text.split(sep) for a one-character separator.
Split(text, sep) ==
    IF \E i \in 1..Len(text) : text[i] = sep
    THEN LET i == CHOOSE k \in 1..Len(text) :
                    text[k] = sep /\ \A j \in 1..(k - 1) : text[j] # sep
         IN  <<SubSeq(text, 1, i - 1)>> \o Split(SubSeq(text, i + 1, Len(text)), sep)
    ELSE <<text>>

RECURSIVE DigitPrefix(_)
\* The longest prefix of digits.
DigitPrefix(text) ==
    IF text # <<>> /\ IsDigit(text[1]) THEN <<text[1]>> \o DigitPrefix(Tail(text)) ELSE <<>>

\* parseInt(value, 10) of an optional text: Undefined stands for NaN.  Leading
\* whitespace is skipped, a sign is taken, and the digits up to the first
\* other character are read; parseInt(undefined) is NaN.
ParseIntOrNaN(value) ==
    IF ~IsDefined(value) THEN Undefined
    ELSE LET text == TrimStart(value[1])
             signed == text # <<>> /\ text[1] \in {"+", "-"}
             digits == DigitPrefix(IF signed THEN Tail(text) ELSE text)
         IN  IF digits = <<>> THEN Undefined
             ELSE IF signed /\ text[1] = "-" THEN Some(-ParseInt(digits))
             ELSE Some(ParseInt(digits))

RECURSIVE ParseParts(_, _, _)
\* The loop of parseHeader over header.split(","): timestamp is Undefined
\* until a "t" part is read and then holds parseInt's result; signature is
\* Undefined until a "v1" part is read and then holds its (optional) value.
ParseParts(parts, timestamp, signature) ==
    IF parts = <<>> THEN [timestamp |-> timestamp, signature |-> signature]
    ELSE LET pieces == Split(parts[1], "=")
             key == pieces[1]
             value == IF Len(pieces) >= 2 THEN Some(pieces[2]) ELSE Undefined
         IN  IF key = <<"t">>
             THEN ParseParts(Tail(parts), Some(ParseIntOrNaN(value)), signature)
             ELSE IF key = <<"v", "1">>
             THEN ParseParts(Tail(parts), timestamp, Some(value))
             ELSE ParseParts(Tail(parts), timestamp, signature)

\* Mutant: a header without a usable v1 part is taken with an empty signature.
parseHeader_NoSignatureTest(header) ==
    LET p == ParseParts(Split(header, ","), Undefined, Undefined)
    IN  IF header = <<>> \/ ~IsDefined(p.timestamp) \/ ~IsDefined(p.timestamp[1])
        THEN Undefined
        ELSE Some([timestamp |-> p.timestamp[1][1], signature |-> <<>>])

\* parseHeader(header): Undefined stands for null.
parseHeader(header) ==
    IF header = <<>> THEN Undefined
    ELSE LET p == ParseParts(Split(header, ","), Undefined, Undefined)
         IN  IF \/ ~IsDefined(p.timestamp)
                \/ ~IsDefined(p.timestamp[1])
                \/ ~IsDefined(p.signature)
                \/ ~IsDefined(p.signature[1])
                \/ p.signature[1][1] = <<>>
             THEN Undefined
             ELSE Some([timestamp |-> p.timestamp[1][1], signature |-> p.signature[1][1]])

\* Mutant: the replay-window check is left out.
OutsideTolerance_Skipped(now, timestamp, toleranceSeconds) == FALSE

\* Mutant: a timestamp exactly toleranceSeconds away is refused.
OutsideTolerance_Inclusive(now, timestamp, toleranceSeconds) ==
    toleranceSeconds > 0 /\ Abs(now - timestamp) >= toleranceSeconds

\* Mutant: a timestamp is accepted during its own second only.
OutsideTolerance_SameSecond(now, timestamp, toleranceSeconds) ==
    toleranceSeconds > 0 /\ now # timestamp

\* toleranceSeconds > 0 && Math.abs(now - timestamp) > toleranceSeconds
OutsideTolerance(now, timestamp, toleranceSeconds) ==
    toleranceSeconds > 0 /\ Abs(now - timestamp) > toleranceSeconds

\* Mutant: the timestamp is left out of the signed content.
SignedContent_BodyOnly(timestamp, body) == <<".", body>>

\* `${timestamp}.${rawBody}`: the characters of the timestamp, the dot, and
\* the body as one token.
SignedContent(timestamp, body) == DecimalChars(timestamp) \o <<".", body>>

\* Payloads a webhook delivery carries; the last one is not JSON.
RawBodies == {"{\"data\":[]}", "{\"error\":\"Invalid API Key\"}", "not json"}

WebhookSecrets == {"whsec_a", "whsec_b"}

\* The hex character that stands for a token of the signed content or for a
\* secret inside a digest.
TokenCode(token) ==
    CASE IsDigit(token) -> token
      [] token = "{\"data\":[]}" -> "a"
      [] token = "{\"error\":\"Invalid API Key\"}" -> "b"
      [] token = "not json" -> "c"
      [] token = "whsec_a" -> "a"
      [] token = "whsec_b" -> "b"
      [] token = "." -> "d"
      [] token = "-" -> "e"

\* hmacSHA256Hex(data, secret): lowercase hex of the HMAC-SHA256 of data under
\* the secret.  The digest is a fixed number of hex characters; SHA-256 being
\* collision-free, different (secret, data) pairs have different digests,
\* which the digest does here by spelling the secret and the data out in hex
\* characters, padded with "f" on the left.
hmacSHA256Hex(data, secretKey) ==
    LET codes == [i \in 1..Len(data) |-> TokenCode(data[i])]
        width == DigestLength - 1
    IN  <<TokenCode(secretKey)>>
            \o [i \in 1..(width - Len(codes)) |-> "f"]
            \o SubSeq(codes, Max(1, Len(codes) - width + 1), Len(codes))

UpperHex == <<"A", "B", "C", "D", "E", "F">>

LowerHex == <<"a", "b", "c", "d", "e", "f">>

\* c.charCodeAt(0) of the characters signatures are written in.
CharCode(c) ==
    IF IsDigit(c) THEN 48 + DigitValue(c)
    ELSE IF \E i \in 1..6 : UpperHex[i] = c
    THEN 64 + (CHOOSE i \in 1..6 : UpperHex[i] = c)
    ELSE 96 + (CHOOSE i \in 1..6 : LowerHex[i] = c)

RECURSIVE BitXor(_, _)
\* a ^ b on naturals
BitXor(a, b) ==
    IF a = 0 /\ b = 0 THEN 0
    ELSE (((a % 2) + (b % 2)) % 2) + 2 * BitXor(a \div 2, b \div 2)

RECURSIVE BitOr(_, _)
\* a | b on naturals
BitOr(a, b) ==
    IF a = 0 /\ b = 0 THEN 0
    ELSE Max(a % 2, b % 2) + 2 * BitOr(a \div 2, b \div 2)

RECURSIVE CompareFrom(_, _, _, _)
\* The loop of constantTimeEqual from index i on, with the result so far.
CompareFrom(a, b, i, acc) ==
    IF i > Len(a) THEN acc
    ELSE CompareFrom(a, b, i + 1, BitOr(acc, BitXor(CharCode(a[i]), CharCode(b[i]))))

\* Mutant: texts of the same length are taken as equal.
constantTimeEqual_LengthOnly(a, b) == Len(a) = Len(b)

\* Mutant: the comparison stops after the first character.
constantTimeEqual_FirstChar(a, b) ==
    Len(a) = Len(b) /\ (a = <<>> \/ a[1] = b[1])

\* constantTimeEqual(a, b)
constantTimeEqual(a, b) ==
    IF Len(a) # Len(b) THEN FALSE ELSE CompareFrom(a, b, 1, 0) = 0

\* Mutant: the parse failure is reported as a signature failure.
JsonParseError_AsSignatureError ==
    PayArkSignatureVerificationError(JSON_SYNTAX_MESSAGE)

\* The SyntaxError JSON.parse(rawBody) throws.
JsonParseError == JsError("SyntaxError", JSON_SYNTAX_MESSAGE)

\* Date.now() when the clock is read: the last millisecond of second 400.
Clocks == {400999}

\* toleranceSeconds of a call: the default, the check disabled, two seconds,
\* and a negative number.
ToleranceOptions == {Undefined, Some(0), Some(2), Some(-1)}

\* Timestamps a sender signs: now, 2 and 3 seconds and 300 and 301 seconds
\* before and after second 400, and a negative one.
Timestamps == {-1, 99, 100, 397, 398, 400, 402, 403, 700, 701}

\* The sender's signature: lowercase hex HMAC-SHA256 of `${timestamp}.${payload}`.
generateSignature(payload, secretKey, timestamp) ==
    hmacSHA256Hex(DecimalChars(timestamp) \o <<".", payload>>, secretKey)

\* The header text "t=<timestamp>,v1=<signature>" from its two texts.
HeaderText(timestampText, signatureText) ==
    <<"t", "=">> \o timestampText \o <<",", "v", "1", "=">> \o signatureText

\* Headers a sender builds: for each timestamp with one payload and secret,
\* and for timestamp 400 with each payload and secret.
SignedHeaders ==
    {HeaderText(DecimalChars(t), generateSignature("{\"data\":[]}", "whsec_a", t)) :
        t \in Timestamps}
    \cup {HeaderText(DecimalChars(400), generateSignature(b, k, 400)) :
            b \in RawBodies, k \in WebhookSecrets}

\* A hex character other than c.
OtherHex(c) == IF c = "0" THEN "1" ELSE "0"

\* Headers for timestamp 400 whose digest was altered: in its last or first
\* character, written in upper case, cut short, or extended.
TamperedHeaders ==
    LET d == generateSignature("{\"data\":[]}", "whsec_a", 400)
        n == Len(d)
    IN  {HeaderText(DecimalChars(400), x) :
            x \in {[d EXCEPT ![n] = OtherHex(d[n])],
                   [d EXCEPT ![2] = OtherHex(d[2])],
                   [d EXCEPT ![1] = "A"],
                   SubSeq(d, 1, n - 1),
                   d \o <<"0">>}}

\* Headers that are not of the form a sender builds.
OddHeaders ==
    LET d == generateSignature("{\"data\":[]}", "whsec_a", 400)
        t == DecimalChars(400)
    IN  {<<>>,
         <<"t", "=">> \o t,
         <<"v", "1", "=">> \o d,
         HeaderText(<<>>, d),
         HeaderText(t, <<>>),
         HeaderText(<<"a", "b", "c">>, d),
         <<"t", "=">> \o t \o <<",", " ", "v", "1", "=">> \o d,
         <<"t", "=">> \o t \o <<",", "v", "1">>,
         HeaderText(t \o <<"a", "b", "c">>, d),
         HeaderText(<<" ">> \o t, d),
         HeaderText(t, d \o <<"=", "0">>),
         <<"v", "1", "=">> \o d \o <<",", "t", "=">> \o t,
         <<"t", "=", "1", ",">> \o HeaderText(t, d)}

WebhookHeaders == SignedHeaders \cup TamperedHeaders \cup OddHeaders

\* constructEvent(rawBody, signatureHeader, secret, toleranceSeconds) up to
\* the first await of hmacSHA256Hex: parseHeader and the replay-window check.
ConstructEventCall(bodies, headerTexts, secrets, tolerances, clocks) ==
    /\ wpc \in {"idle", "returned", "raised"}
    /\ verifications < MaxVerifications
    /\ \E b \in bodies, h \in headerTexts, k \in secrets, tol \in tolerances, c \in clocks :
        LET parsed == parseHeader(h)
            now == c \div 1000
            toleranceSeconds == Coalesce(tol, DEFAULT_TOLERANCE_SECONDS)
        IN  /\ rawBody' = b
            /\ signatureHeader' = h
            /\ secret' = k
            /\ tolerance' = tol
            /\ nowMs' = c
            /\ IF ~IsDefined(parsed)
               THEN /\ steps' = <<"parseHeader">>
                    /\ rejected' = Some(PayArkSignatureVerificationError(HEADER_UNPARSEABLE))
                    /\ wpc' = "raised"
               ELSE IF OutsideTolerance(now, parsed[1].timestamp, toleranceSeconds)
               THEN /\ steps' = <<"parseHeader", "tolerance">>
                    /\ rejected' = Some(PayArkSignatureVerificationError(TIMESTAMP_OUTSIDE))
                    /\ wpc' = "raised"
               ELSE /\ steps' = <<"parseHeader", "tolerance", "hmac">>
                    /\ rejected' = Undefined
                    /\ wpc' = "signing"
    /\ event' = Undefined
    /\ verifications' = verifications + 1
    /\ UNCHANGED <<transport, factory, client, comparison>>

\* A constructEvent() call, the calls before it forgotten.
ConstructEvent(bodies, headerTexts, secrets, tolerances, clocks) ==
    /\ ConstructEventCall(bodies, headerTexts, secrets, tolerances, clocks)
    /\ UNCHANGED previous

\* The arguments and the outcome of the current constructEvent() call.
CallRecord ==
    [rawBody |-> rawBody, signatureHeader |-> signatureHeader, secret |-> secret,
     tolerance |-> tolerance, nowMs |-> nowMs, steps |-> steps, event |-> event,
     rejected |-> rejected]

\* A constructEvent() call, the call before it remembered.
ConstructEventAfter(bodies, headerTexts, secrets, tolerances, clocks) ==
    /\ ConstructEventCall(bodies, headerTexts, secrets, tolerances, clocks)
    /\ previous' = IF wpc = "idle" THEN Undefined ELSE Some(CallRecord)

\* hmacSHA256Hex resolves: the comparison, then JSON.parse(rawBody).
SignatureComputed ==
    /\ wpc = "signing"
    /\ LET parsed == parseHeader(signatureHeader)[1]
           expected == hmacSHA256Hex(SignedContent(parsed.timestamp, rawBody), secret)
       IN  IF ~constantTimeEqual(parsed.signature, expected)
           THEN /\ steps' = Append(steps, "compare")
                /\ rejected' = Some(PayArkSignatureVerificationError(SIGNATURE_MISMATCH))
                /\ wpc' = "raised"
                /\ UNCHANGED event
           ELSE /\ steps' = steps \o <<"compare", "parse">>
                /\ IF IsDefined(ParseJson(rawBody))
                   THEN /\ event' = ParseJson(rawBody)
                        /\ wpc' = "returned"
                        /\ UNCHANGED rejected
                   ELSE /\ rejected' = Some(JsonParseError)
                        /\ wpc' = "raised"
                        /\ UNCHANGED event
    /\ UNCHANGED <<transport, factory, client, comparison, rawBody, signatureHeader, secret, tolerance, nowMs,
                   verifications, previous>>

InitWebhooks == NoClient /\ StaticIdle

NextWebhooks ==
    \/ ConstructEvent(RawBodies, WebhookHeaders, WebhookSecrets, ToleranceOptions, Clocks)
    \/ SignatureComputed

SpecWebhooks == InitWebhooks /\ [][NextWebhooks]_vars

\* Headers of the calls that are compared with one another: signed at second
\* 400 under each secret, signed at second 701, with an altered digest, and
\* empty.
PairHeaders ==
    {HeaderText(DecimalChars(400), generateSignature("{\"data\":[]}", k, 400)) :
        k \in WebhookSecrets}
    \cup {HeaderText(DecimalChars(701), generateSignature("{\"data\":[]}", "whsec_a", 701)),
          HeaderText(DecimalChars(400),
              [generateSignature("{\"data\":[]}", "whsec_a", 400) EXCEPT ![2] = "0"]),
          HeaderText(DecimalChars(400), generateSignature("not json", "whsec_a", 400)),
          <<>>}

\* Date.now() of the calls that are compared: within second 400, and two
\* seconds later.
PairClocks == {400999, 402000}

\* Successive constructEvent() calls, each compared with the one before it.
NextWebhookPairs ==
    \/ ConstructEventAfter({"{\"data\":[]}", "not json"}, PairHeaders, WebhookSecrets,
                           {Undefined, Some(0)}, PairClocks)
    \/ SignatureComputed

SpecWebhookPairs == InitWebhooks /\ [][NextWebhookPairs]_vars

\* -------------------------------------------------- resource accessors

\* Mutant: the accessor constructs a wrapper on every access.
Memoized_Fresh(field, fresh) == Some(fresh)

\* if (!this._x) { this._x = new X(this.http); }: the field after the test.
Memoized(field, fresh) == IF IsDefined(field) THEN field ELSE Some(fresh)

\* The getter `a` of client c is read: the field is set when it is unset, and
\* the field's value is returned.  A wrapper is an object with an identity.
Access ==
    /\ accessCount < MaxAccesses
    /\ \E c \in Clients, a \in Accessors :
        LET fresh == [id |-> objects + 1, kind |-> a]
            after == Memoized(fields[c][a], fresh)
            made == IF after = Some(fresh) THEN 1 ELSE 0
        IN  /\ fields' = [fields EXCEPT ![c][a] = after]
            /\ objects' = objects + made
            /\ constructed' = [constructed EXCEPT ![c][a] = @ + made]
            /\ lastAccess' = Some([client |-> c, accessor |-> a, returned |-> after[1]])
            /\ firstAccess' = IF IsDefined(firstAccess[c][a]) THEN firstAccess
                              ELSE [firstAccess EXCEPT ![c][a] = after]
    /\ accessCount' = accessCount + 1
    /\ UNCHANGED <<transport, webhook, factory, comparison>>

InitClient == Construct({Undefined}) 

NextClient == Access

SpecClient == InitClient /\ [][NextClient]_vars

\* ------------------------------------------------- the comparison alone

\* Bound: length of the texts compared.
MaxCompareLength == 3

\* Characters of the texts compared: a digit and a letter in both cases.
CompareAlphabet == {"0", "a", "A"}

\* The texts of the alphabet up to the bound.
CompareTexts ==
    UNION {[1..n -> CompareAlphabet] : n \in 0..MaxCompareLength}

RECURSIVE FirstMismatch(_, _, _)
\* Mutant's loop: it leaves at the first position where the texts differ.
FirstMismatch(a, b, i) ==
    IF i > Len(a) THEN Len(a)
    ELSE IF a[i] # b[i] THEN i
    ELSE FirstMismatch(a, b, i + 1)

\* Mutant: the loop returns at the first mismatch.
CompareSteps_EarlyExit(a, b) ==
    IF Len(a) # Len(b) THEN 0 ELSE FirstMismatch(a, b, 1)

RECURSIVE StepsFrom(_, _, _, _)
\* for (let i = 0; i < a.length; i++) { result |= ... }: the iterations made
\* from index i on, n made so far.  The body has no exit.
StepsFrom(a, b, i, n) ==
    IF i > Len(a) THEN n ELSE StepsFrom(a, b, i + 1, n + 1)

\* The loop iterations of constantTimeEqual(a, b): none when the length test
\* returns.
CompareSteps(a, b) ==
    IF Len(a) # Len(b) THEN 0 ELSE StepsFrom(a, b, 1, 0)

InitCompare ==
    /\ NoClient
    /\ WebhookIdle
    /\ FactoryIdle
    /\ ClientIdle
    /\ cmpA \in CompareTexts
    /\ cmpB \in CompareTexts
    /\ cmpResult = Undefined
    /\ cmpSteps = 0

\* constantTimeEqual(cmpA, cmpB) runs.
Compare ==
    /\ ~IsDefined(cmpResult)
    /\ cmpResult' = Some(constantTimeEqual(cmpA, cmpB))
    /\ cmpSteps' = CompareSteps(cmpA, cmpB)
    /\ UNCHANGED <<transport, webhook, factory, client, cmpA, cmpB>>

NextCompare == Compare

SpecCompare == InitCompare /\ [][NextCompare]_vars

TypeOK ==
    /\ pc \in {"new", "failed", "idle", "fetching", "reading", "sleeping", "returned", "raised"}
    /\ maxRetries \in -1..Max(MaxRetriesBound, DEFAULT_MAX_RETRIES)
    /\ attempt \in 0..Max(MaxRetriesBound, DEFAULT_MAX_RETRIES)
    /\ Len(calls) <= attempt + 1

\* ----------------------------------------------------------------- claims

\* The error codes as the classifier's table states them.
ClaimedCode(status) ==
    CASE status = 401 -> "authentication_error"
      [] status = 403 -> "permission_error"
      [] status \in {400, 422} -> "invalid_request_error"
      [] status = 404 -> "not_found_error"
      [] status = 429 -> "rate_limit_error"
      [] status = 0 -> "connection_error"
      [] status >= 500 -> "api_error"
      [] OTHER -> "unknown_error"

\* The retryable statuses as the claims list them.
ClaimedRetryable == {429, 500, 502, 503, 504}

\* The latest call was answered with a non-2xx Response.
ErrorResponse == outcome = "error" /\ pc # "fetching" /\ IsDefined(response)

\* Every call of the current request has ended, each with a retryable status.
AllRetryable == calls # <<>> /\ retryableSeen = Len(calls)

C2_NoAttemptAfter2xx ==
    [][(IsDefined(response) /\ Ok(response[1].status) /\ requests' = requests)
          => calls' = calls]_vars

\* The Idempotency-Key values the caller passed in opts.headers.
CallerKeys == IF IsDefined(extraHeaders) THEN KeysIn(extraHeaders[1]) ELSE {}

\* Every call of the current request carries the same Idempotency-Key value,
\* and a mutating request carries one.
SameKeyOnEveryAttempt ==
    \A i \in 1..Len(calls) :
        /\ KeysIn(calls[i].headers) = KeysIn(calls[1].headers)
        /\ method \in {"POST", "PUT", "PATCH"} => KeysIn(calls[i].headers) # {}

\* C3 as stated: the Idempotency-Key value of a mutating request is the same
\* on every attempt, and differs from the value of every earlier mutating
\* request.
C3_Original ==
    /\ SameKeyOnEveryAttempt
    /\ (method \in {"POST", "PUT", "PATCH"} /\ calls # <<>>) =>
          KeysIn(headers) \cap priorKeys = {}

\* C3 (amended): the Idempotency-Key value of a mutating request is the same
\* on every attempt; when the caller passes no Idempotency-Key header of its
\* own, the value is the generated one and differs from the value of every
\* earlier mutating request.
C3_KeyPerRequest ==
    /\ SameKeyOnEveryAttempt
    /\ (method \in {"POST", "PUT", "PATCH"} /\ calls # <<>> /\ CallerKeys = {}) =>
          KeysIn(headers) \cap priorKeys = {}

C3_Witness ==
    /\ method = "POST"
    /\ CallerKeys = {}
    /\ Len(calls) = 3
    /\ priorKeys # {}
    /\ \E k \in priorKeys : k # "caller-key"

\* C4 as stated: no call of a GET or DELETE request carries an
\* Idempotency-Key header, whatever options the caller passes.
C4_Original ==
    method \in {"GET", "DELETE"} =>
        \A i \in 1..Len(calls) : "Idempotency-Key" \notin DOMAIN calls[i].headers

\* C4 (amended): a call of a GET or DELETE request carries an Idempotency-Key
\* header only when the caller passed one in opts.headers, and then with the
\* caller's value; no key is generated for it.
C4_NoGeneratedKey ==
    method \in {"GET", "DELETE"} =>
        \A i \in 1..Len(calls) : KeysIn(calls[i].headers) = CallerKeys

C4_Witness ==
    /\ method = "DELETE"
    /\ Len(calls) = 3
    /\ CallerKeys = {}
    /\ draws > 0

\* C5: when the first k-1 attempts failed with retryable statuses or transport
\* faults, the request goes on to the next attempt while k-1 <= maxRetries - 1,
\* and when attempt k is answered 2xx with a JSON body the request returns that
\* body parsed, with exactly k calls made.
C5_RecoverByRetry ==
    /\ (pc \notin {"idle", "fetching"} /\ outcome \in {"error", "abort", "network"}
            /\ retryableSeen + faultsSeen = Len(calls) /\ Len(calls) <= maxRetries) =>
          pc = "sleeping"
    /\ (outcome = "success" /\ response[1].status # 204
            /\ retryableSeen + faultsSeen = attempt) =>
          /\ pc = "returned"
          /\ result = ParseJson(response[1].body)
          /\ IsDefined(result)
          /\ Len(calls) = retryableSeen + faultsSeen + 1

C5_Witness ==
    /\ pc = "returned"
    /\ maxRetries = 2
    /\ retryableSeen = 1
    /\ faultsSeen = 1
    /\ Len(calls) = 3
    /\ result = Some(JsonObject(Undefined, Some("[]")))

\* The message the claims give an error built from a Response: the body's
\* error string when the body is JSON that has one, else the synthesized text.
ClaimedMessage(r) ==
    LET parsed == ParseJson(r.body)
    IN  IF IsDefined(parsed) /\ IsDefined(parsed[1].error)
        THEN parsed[1].error[1]
        ELSE "Request failed with status " \o ToString(r.status)

\* As ClaimedMessage, for a non-empty error string only.
AmendedMessage(r) ==
    LET parsed == ParseJson(r.body)
    IN  IF IsDefined(parsed) /\ IsDefined(parsed[1].error) /\ parsed[1].error[1] # ""
        THEN parsed[1].error[1]
        ELSE "Request failed with status " \o ToString(r.status)

\* C6: when all maxRetries + 1 attempts have failed, the error raised is the
\* one of the final attempt: status, code and message of the last response or
\* fault.
C6_LastErrorRaised ==
    (pc = "raised" /\ maxRetries >= 0 /\ Len(calls) = maxRetries + 1) =>
        /\ IsDefined(thrown)
        /\ outcome = "error" =>
              /\ thrown[1].statusCode = response[1].status
              /\ thrown[1].code = ClaimedCode(response[1].status)
              /\ thrown[1].message = AmendedMessage(response[1])
        /\ outcome \in {"abort", "network", "unparsed"} =>
              /\ thrown[1].statusCode = 0
              /\ thrown[1].code = "connection_error"
        /\ outcome = "abort" =>
              thrown[1].message = "Request timed out after "
                                      \o ToString(requestTimeout) \o "ms"
        /\ outcome = "network" => thrown[1].message = "Network error: fetch failed"

C6_Witness ==
    /\ pc = "raised"
    /\ maxRetries = 2
    /\ Len(calls) = 3
    /\ outcome = "error"
    /\ response[1].status = 503
    /\ faultsSeen = 2

\* The latest call was answered with a non-2xx status outside the retryable set.
FatalResponse == ErrorResponse /\ response[1].status \notin ClaimedRetryable

\* C7 as stated: such a response raises at once an error with the status, the
\* classifier's code, the parsed body as raw, and the body's error string (when
\* the body is JSON that has one) or the synthesized text as message.
C7_Original ==
    FatalResponse =>
        /\ pc = "raised"
        /\ thrown = lastError
        /\ thrown[1].statusCode = response[1].status
        /\ thrown[1].code = ClaimedCode(response[1].status)
        /\ thrown[1].raw = ParseJson(response[1].body)
        /\ thrown[1].message = ClaimedMessage(response[1])

\* C7 (amended): as C7, the message being the body's error string when the
\* body is JSON that has a non-empty one, else the synthesized text.
C7_FatalError ==
    FatalResponse =>
        /\ pc = "raised"
        /\ thrown = lastError
        /\ thrown[1].statusCode = response[1].status
        /\ thrown[1].code = ClaimedCode(response[1].status)
        /\ thrown[1].raw = ParseJson(response[1].body)
        /\ thrown[1].message = AmendedMessage(response[1])

C7_Witness ==
    /\ FatalResponse
    /\ response[1].status = 401
    /\ maxRetries = 2
    /\ thrown[1].message = "Invalid API Key"
    /\ Len(calls) = 1

Numeral(n) ==
    IF n < 10 THEN <<Digits[n + 1]>> ELSE <<Digits[(n \div 10) + 1], Digits[(n % 10) + 1]>>

\* The request sleeps after a 429 response whose Retry-After is the numeral of n.
SleepsAfter429(n) ==
    /\ pc = "sleeping"
    /\ ErrorResponse
    /\ response[1].status = 429
    /\ response[1].retryAfter.present
    /\ response[1].retryAfter.text = Numeral(n)

\* C9 as stated: for every n >= 0 the sleep after such a 429 lasts n * 1000 ms.
C9_Original ==
    \A n \in 0..99 : SleepsAfter429(n) => lastSleep[1].delay = n * 1000

\* C9 (amended): for every n >= 1 the sleep after such a 429 lasts n * 1000 ms
\* and not the back-off value; for n = 0 it is the back-off value.
C9_RetryAfterSeconds ==
    /\ \A n \in 1..99 : SleepsAfter429(n) => lastSleep[1].delay = n * 1000
    /\ SleepsAfter429(0) =>
          \E j \in 0..(JITTER_MS - 1) :
              lastSleep[1].delay = 500 * 2^(lastSleep[1].attempt) + j

C9_Witness == SleepsAfter429(2) /\ attempt = 1 /\ lastSleep[1].delay = 2000

\* The back-off range of the attempt with 0-based index k.
InBackoffRange(delay, k) == 500 * 2^k <= delay /\ delay < 500 * 2^k + 200

\* C10: a sleep without server-directed delay after the attempt with index k
\* lies in [500 * 2^k, 500 * 2^k + 200), and the next such sleep of the same
\* request is strictly longer.
C10_BackoffRange ==
    /\ [](IsDefined(lastSleep) /\ lastSleep[1].retryAfterMs = 0 =>
            /\ lastSleep[1].attempt = sleepCount - 1
            /\ InBackoffRange(lastSleep[1].delay, lastSleep[1].attempt))
    /\ [][(/\ IsDefined(lastSleep) /\ IsDefined(lastSleep')
           /\ lastSleep' # lastSleep
           /\ lastSleep[1].retryAfterMs = 0 /\ lastSleep'[1].retryAfterMs = 0)
             => lastSleep'[1].delay > lastSleep[1].delay]_vars

C10_Witness ==
    /\ pc = "sleeping"
    /\ IsDefined(lastSleep)
    /\ lastSleep[1].attempt = 1
    /\ lastSleep[1].retryAfterMs = 0
    /\ lastSleep[1].delay = 1000

\* The latest call of the current request ended in a transport-level fault.
TransportFault == outcome \in {"abort", "network"} /\ pc # "fetching"

\* The N of the timeout message: the per-call override if given, else the
\* configured timeout.
ClaimedTimeout == IF IsDefined(timeoutOption) THEN timeoutOption[1] ELSE timeout

CarriesErrorFields(e) ==
    /\ {"code", "statusCode", "message"} \subseteq DOMAIN e
    /\ e.statusCode \in Int

\* C12: every failure of a logical request surfaces as a PayArkError carrying
\* code, numeric statusCode and message: request() raises no other kind of
\* error, and it never completes without a result or a raised error.
C12_OnlyPayArkErrors ==
    /\ pc = "raised" => IsDefined(thrown) /\ CarriesErrorFields(thrown[1])
    /\ pc = "returned" => IsDefined(result) /\ ~IsDefined(thrown)

Blank(key) == \A i \in 1..Len(key) : key[i] \in {" ", "\t", "\n"}

\* C14: constructing a transport with an API key that is empty or only
\* whitespace raises an error with code authentication_error at construction
\* time, before any network request; with a key that is non-empty after
\* trimming, construction succeeds and every request carries a non-empty key,
\* so that no request fails on the key check.
C14_KeyCheckedAtConstruction ==
    (pc # "new" /\ IsDefined(given[1].apiKey)) =>
        LET key == given[1].apiKey[1]
        IN  /\ Blank(key) =>
                /\ pc = "failed"
                /\ thrown[1].code = "authentication_error"
                /\ calls = <<>>
                /\ requests = 0
            /\ ~Blank(key) =>
                /\ pc # "failed"
                /\ apiKey # ""
                /\ \A i \in 1..Len(calls) :
                    calls[i].headers["Authorization"] = "Bearer " \o apiKey
                /\ IsDefined(thrown) => thrown[1].message # API_KEY_REQUIRED

\* The constructor refused a key of three whitespace characters.
C14_Witness ==
    /\ pc = "failed"
    /\ given[1].apiKey = Some(<<" ", "\t", " ">>)
    /\ thrown[1].name = "PayArkAuthenticationError"

\* The current constructEvent() call has resolved or rejected.
Settled == wpc \in {"returned", "raised"}

\* now_seconds of the current call.
NowSeconds == nowMs \div 1000

\* The tolerance in force: the argument, or five minutes when it is left out.
ToleranceInForce == IF IsDefined(tolerance) THEN tolerance[1] ELSE 300

\* The replay-window check as the claims state it.
ClaimedOutside(t) == ToleranceInForce > 0 /\ Abs(NowSeconds - t) > ToleranceInForce

\* Lowercase hex HMAC-SHA256 of '<t>.<rawBody>' under the secret of the call.
ClaimedDigest(t) == hmacSHA256Hex(DecimalChars(t) \o <<".", rawBody>>, secret)

\* The header of the current call parses, its timestamp passes the replay
\* check and its v1 value is the digest of the call's body under its secret.
Verified ==
    /\ IsDefined(parseHeader(signatureHeader))
    /\ ~ClaimedOutside(parseHeader(signatureHeader)[1].timestamp)
    /\ parseHeader(signatureHeader)[1].signature
        = ClaimedDigest(parseHeader(signatureHeader)[1].timestamp)

\* C15: for every JSON payload P, secret S and timestamp T with
\* |now - T| <= tolerance, constructEvent(P, 't=T,v1=D', S), with D the
\* lowercase hex HMAC-SHA256 of 'T.P' under S, succeeds and returns P parsed.
C15_ValidSignatureAccepted ==
    \A t \in Timestamps :
        (/\ Settled
         /\ IsDefined(ParseJson(rawBody))
         /\ signatureHeader = HeaderText(DecimalChars(t), generateSignature(rawBody, secret, t))
         /\ Abs(NowSeconds - t) <= ToleranceInForce)
        => wpc = "returned" /\ event = ParseJson(rawBody)

\* A payload signed exactly 300 seconds ago is accepted under the default
\* tolerance.
C15_Witness ==
    /\ wpc = "returned"
    /\ tolerance = Undefined
    /\ signatureHeader
        = HeaderText(DecimalChars(100), generateSignature(rawBody, secret, 100))
    /\ event = Some(JsonObject(Undefined, Some("[]")))

\* C16: when the header parses and the timestamp is within tolerance but the
\* v1 value differs from the HMAC hex digest of '<t>.<rawBody>' under the
\* secret (digest altered, body changed, wrong secret), constructEvent fails
\* with 'Signature did not match' and returns no event.
C16_WrongSignatureRejected ==
    (/\ Settled
     /\ IsDefined(parseHeader(signatureHeader))
     /\ ~ClaimedOutside(parseHeader(signatureHeader)[1].timestamp)
     /\ parseHeader(signatureHeader)[1].signature
            # ClaimedDigest(parseHeader(signatureHeader)[1].timestamp))
    => /\ wpc = "raised"
       /\ rejected = Some(PayArkSignatureVerificationError("Signature did not match"))
       /\ ~IsDefined(event)

\* A header signed for one body is refused with another body.
C16_Witness ==
    /\ wpc = "raised"
    /\ rawBody = "{\"error\":\"Invalid API Key\"}"
    /\ signatureHeader
        = HeaderText(DecimalChars(400), generateSignature("{\"data\":[]}", secret, 400))
    /\ rejected[1].message = "Signature did not match"

\* C17: for a header that parses, constructEvent fails with 'Timestamp outside
\* the tolerance zone' exactly when toleranceSeconds > 0 and
\* |now_seconds - t| > toleranceSeconds, for past and future timestamps alike;
\* a timestamp exactly toleranceSeconds away passes the check, and a
\* tolerance of 0 disables it.
C17_ReplayWindow ==
    (wpc # "idle" /\ IsDefined(parseHeader(signatureHeader))) =>
        ((/\ wpc = "raised"
          /\ rejected
              = Some(PayArkSignatureVerificationError("Timestamp outside the tolerance zone")))
         <=> ClaimedOutside(parseHeader(signatureHeader)[1].timestamp))

\* A timestamp three seconds in the future is refused under a tolerance of two.
C17_Witness ==
    /\ wpc = "raised"
    /\ tolerance = Some(2)
    /\ IsDefined(parseHeader(signatureHeader))
    /\ parseHeader(signatureHeader)[1].timestamp = 403
    /\ rejected[1].message = "Timestamp outside the tolerance zone"

\* The header of the current call has a comma-separated part whose key
\* (the text before its first "=") is this one.
HasComponent(key) ==
    \E i \in 1..Len(Split(signatureHeader, ",")) :
        Split(Split(signatureHeader, ",")[i], "=")[1] = key

\* C18: when the header is empty or lacks a t or a v1 component,
\* constructEvent fails with the header-unparseable error, and no
\* replay-window check, no HMAC computation and no JSON parse is attempted.
C18_UnparseableHeader ==
    (/\ wpc # "idle"
     /\ \/ signatureHeader = <<>>
        \/ ~HasComponent(<<"t">>)
        \/ ~HasComponent(<<"v", "1">>))
    => /\ wpc = "raised"
       /\ rejected = Some(PayArkSignatureVerificationError(
                        "Unable to extract timestamp and signature from header"))
       /\ steps = <<"parseHeader">>
       /\ ~IsDefined(event)

\* A header with a timestamp and no v1 component is refused at the parse.
C18_Witness ==
    /\ wpc = "raised"
    /\ signatureHeader = <<"t", "=", "4", "0", "0">>
    /\ steps = <<"parseHeader">>
    /\ rejected[1].message = "Unable to extract timestamp and signature from header"

\* C19: constructEvent returns an event only if the header parsed, the
\* timestamp passed the replay check and the v1 value equalled the
\* recomputed HMAC.
C19_EventOnlyIfVerified == IsDefined(event) => wpc = "returned" /\ Verified

\* An event is returned for an old timestamp when the replay check is disabled.
C19_Witness ==
    /\ IsDefined(event)
    /\ tolerance = Some(0)
    /\ parseHeader(signatureHeader)[1].timestamp = 99
    /\ Verified

\* C20: when the signature verifies but rawBody is not valid JSON,
\* constructEvent raises a JSON parse error that is not a
\* PayArkSignatureVerificationError, and it does so only after all the
\* signature checks have passed.
C20_ParseErrorAfterVerification ==
    /\ (Settled /\ Verified /\ ~IsDefined(ParseJson(rawBody))) =>
        /\ wpc = "raised"
        /\ rejected[1].name = "SyntaxError"
        /\ rejected[1].name # "PayArkSignatureVerificationError"
        /\ ~IsDefined(event)
    /\ (IsDefined(rejected) /\ rejected[1].name = "SyntaxError") =>
        /\ Verified
        /\ steps = <<"parseHeader", "tolerance", "hmac", "compare", "parse">>

\* A correctly signed body that is not JSON raises the parse error.
C20_Witness ==
    /\ wpc = "raised"
    /\ rawBody = "not json"
    /\ Verified
    /\ rejected = Some(JsError("SyntaxError", "Unexpected end of JSON input"))

\* The codes of the HTTP error taxonomy.
HttpTaxonomyCodes ==
    {"authentication_error", "permission_error", "invalid_request_error", "not_found_error",
     "rate_limit_error", "api_error", "connection_error", "unknown_error"}

\* The current constructEvent() call was rejected by a signature check.
VerificationFailed ==
    /\ wpc = "raised"
    /\ rejected[1].name = "PayArkSignatureVerificationError"

\* C21: every signature verification failure is reported with the
\* webhook-specific kind signature_verification_error, whose code is none of
\* the codes of the HTTP taxonomy and which carries no HTTP status code.
C21_SignatureErrorKind ==
    VerificationFailed =>
        /\ rejected[1].code = "signature_verification_error"
        /\ rejected[1].code \notin HttpTaxonomyCodes
        /\ rejected[1].statusCode \notin 100..599

\* The call before the current one had the same arguments but for the secret.
DiffersOnlyInSecret ==
    /\ IsDefined(previous)
    /\ previous[1].rawBody = rawBody
    /\ previous[1].signatureHeader = signatureHeader
    /\ previous[1].tolerance = tolerance
    /\ previous[1].nowMs = nowMs
    /\ previous[1].secret # secret

\* C22: no error raised by webhook verification reveals the secret: the
\* messages of the three verification failures are fixed strings, so two
\* calls that differ only in the secret and fail at the same step raise
\* errors with identical message, code and statusCode.
C22_ErrorsHideSecret ==
    /\ VerificationFailed =>
        rejected[1].message \in
            {"Unable to extract timestamp and signature from header",
             "Timestamp outside the tolerance zone", "Signature did not match"}
    /\ (/\ VerificationFailed
        /\ DiffersOnlyInSecret
        /\ IsDefined(previous[1].rejected)
        /\ previous[1].steps = steps)
       => /\ rejected[1].message = previous[1].rejected[1].message
          /\ rejected[1].code = previous[1].rejected[1].code
          /\ rejected[1].statusCode = previous[1].rejected[1].statusCode

\* Two calls with an altered digest, under one secret and then the other,
\* both fail at the comparison.
C22_Witness ==
    /\ VerificationFailed
    /\ DiffersOnlyInSecret
    /\ IsDefined(previous[1].rejected)
    /\ steps = <<"parseHeader", "tolerance", "hmac", "compare">>
    /\ previous[1].steps = steps
    /\ rejected = previous[1].rejected

\* C23: a 204 response yields an empty result object without any attempt to
\* parse the body, so a 204 whose body is empty or not JSON is returned as a
\* success after that single attempt.
C23_NoContent ==
    (pc # "fetching" /\ IsDefined(response) /\ response[1].status = 204) =>
        /\ ~IsDefined(ParseJson(response[1].body))
        /\ outcome = "success"
        /\ pc = "returned"
        /\ result = Some(EmptyObject)
        /\ ~IsDefined(thrown)

\* The first attempt was answered 204 with an empty body and {} was returned.
C23_Witness ==
    /\ pc = "returned"
    /\ Len(calls) = 1
    /\ response[1].status = 204
    /\ response[1].body = ""
    /\ result = Some(EmptyObject)

\* C24: caller-supplied headers are merged after all default headers, so for
\* every header name present in both, the value sent on every physical attempt
\* is the caller's: for Content-Type, Authorization, the sandbox marker and
\* Idempotency-Key alike.
C24_CallerHeadersWin ==
    IsDefined(extraHeaders) =>
        \A i \in 1..Len(calls) : \A h \in DOMAIN extraHeaders[1] :
            /\ h \in DOMAIN calls[i].headers
            /\ calls[i].headers[h] = extraHeaders[1][h]

\* Three attempts of a sandbox client's POST, each sent with the caller's
\* content type and the caller's sandbox marker.
C24_Witness ==
    /\ sandbox
    /\ method = "POST"
    /\ Len(calls) = 3
    /\ extraHeaders = Some([h \in {"Content-Type", "x-sandbox-mode"} |->
                              IF h = "Content-Type" THEN "text/plain" ELSE "false"])
    /\ calls[3].headers["x-sandbox-mode"] = "false"
    /\ calls[3].headers["Content-Type"] = "text/plain"

\* C25: for each client instance, each resource accessor constructs its
\* wrapper at most once: every access after the first returns the instance
\* the first access returned, after any sequence of accesses to any accessor.
C25_LazySingletons ==
    /\ \A c \in Clients, a \in Accessors : constructed[c][a] <= 1
    /\ IsDefined(lastAccess) =>
        lastAccess[1].returned
            = firstAccess[lastAccess[1].client][lastAccess[1].accessor][1]

\* A fourth access returns the wrapper of the first, two other accessors
\* having been read in between.
C25_Witness ==
    /\ accessCount = 4
    /\ objects = 3
    /\ lastAccess[1].returned.id = 1
    /\ constructed[lastAccess[1].client][lastAccess[1].accessor] = 1

\* C30: a logical request has at most one armed timeout timer at every
\* moment, and it is the timer of the attempt in flight: the timer of an
\* attempt is disarmed when the attempt's response arrives or its fault is
\* caught, so no timer is armed during a sleep or once the request has
\* returned or raised, and no timer of attempt k is armed during attempt k+1.
C30_OneTimer ==
    /\ Cardinality(timers) <= 1
    /\ pc = "fetching" => timers = {attempt}
    /\ pc # "fetching" => timers = {}

\* The second attempt of a request is in flight after a caught fault of the
\* first, and the only armed timer is the second attempt's.
C30_Witness ==
    /\ pc = "fetching"
    /\ attempt = 1
    /\ faultsSeen = 1
    /\ timers = {1}

\* The fetch() calls of the request that have been issued and have neither
\* resolved nor rejected.
InFlight == Len(calls) - settled

\* At most one fetch() call is in flight, and only while the request awaits it.
OneInFlight ==
    /\ InFlight \in {0, 1}
    /\ InFlight = 1 <=> pc = "fetching"
    /\ pc = "fetching" => Len(calls) = attempt + 1

\* A later attempt of a request is issued by the step that ends a sleep, when
\* every earlier attempt has ended and each has been followed by a sleep.
NextAfterSleep ==
    (calls # <<>> /\ calls' # calls /\ requests' = requests)
        => /\ pc = "sleeping"
           /\ InFlight = 0
           /\ sleepCount = Len(calls)
           /\ Len(calls') = Len(calls) + 1

\* C26: at every moment at most one physical attempt of a logical request
\* is in flight: attempt k+1 is issued only after attempt k has ended in a
\* response or a fault and the sleep between them has finished.
C26_OneAttemptInFlight == []OneInFlight /\ [][NextAfterSleep]_vars

\* The third attempt is in flight, the two before it have ended, one of them
\* in a fault, and two sleeps have finished.
C26_Witness ==
    /\ pc = "fetching"
    /\ Len(calls) = 3
    /\ settled = 2
    /\ sleepCount = 2
    /\ faultsSeen >= 1

\* The sleeps of a request counted against its attempts: none before the
\* first attempt, one before each later attempt, and one more only while the
\* request sleeps, with an attempt still allowed after it.
SleepsBetweenAttempts ==
    /\ calls = <<>> => sleepCount = 0
    /\ pc = "fetching" => sleepCount = Len(calls) - 1
    /\ pc = "sleeping" => sleepCount = Len(calls) /\ Len(calls) <= maxRetries
    /\ (pc \in {"returned", "raised"} /\ calls # <<>>) => sleepCount = Len(calls) - 1

\* A sleep is started by the end of an attempt and is ended by the next attempt.
SleepThenAttempt ==
    /\ sleepCount' = sleepCount + 1 => pc = "fetching" /\ pc' = "sleeping"
    /\ (pc = "sleeping" /\ pc' # pc) =>
        /\ pc' = "fetching"
        /\ Len(calls') = Len(calls) + 1
        /\ sleepCount' = sleepCount

\* C28: within one logical request sleeps and physical attempts strictly
\* alternate: exactly one sleep between two consecutive attempts, no sleep
\* before the first attempt and no sleep after the attempt that ends the
\* request, be it a success, a non-retryable error or the last allowed
\* attempt, even a 429 with Retry-After.
C28_SleepsAlternate == []SleepsBetweenAttempts /\ [][SleepThenAttempt]_vars

\* The last allowed attempt of a request was a 429 with Retry-After and the
\* request raised, with one sleep between the attempts and none after.
C28_Witness ==
    /\ pc = "raised"
    /\ maxRetries = 2
    /\ Len(calls) = 3
    /\ sleepCount = 2
    /\ IsDefined(response)
    /\ response[1].status = 429
    /\ RetryAfterMs(response[1], 0) > 0

\* The request is between its call and its completion.
Running == pc \in {"fetching", "reading", "sleeping"}

\* The request has returned a result or raised an error.
Completed == pc \in {"returned", "raised"}

OwnAttempts(call) ==
    /\ Len(call.calls) <= Max(0, maxRetries + 1)
    /\ call.pc = "fetching" => Len(call.calls) = call.attempt + 1
    /\ call.pc = "sleeping" => Len(call.calls) = call.attempt + 1

\* Every attempt of a mutating call carries the key fixed at the call's start.
OwnKey(call) ==
    call.method \in MUTATING_METHODS =>
        \A i \in 1..Len(call.calls) :
            /\ "Idempotency-Key" \in DOMAIN call.calls[i].headers
            /\ call.calls[i].headers["Idempotency-Key"] = call.headers["Idempotency-Key"]

\* No attempt of call a carries the key of call b.
NotTheOthers(a, b) ==
    (a.method \in MUTATING_METHODS /\ b.method \in MUTATING_METHODS /\ b.calls # <<>>) =>
        \A i \in 1..Len(a.calls) : KeysIn(a.calls[i].headers) \cap KeysIn(b.headers) = {}

\* C27: when two logical requests run concurrently on one transport, under
\* every interleaving of their attempts and sleeps each makes at most
\* maxRetries + 1 attempts counted on its own, every attempt of a mutating
\* request carries that request's own idempotency key and never the
\* other's, and neither changes the connection configuration.
C27_ConcurrentRequests ==
    /\ [](/\ OwnAttempts(Suspended) /\ OwnAttempts(parked)
          /\ OwnKey(Suspended) /\ OwnKey(parked)
          /\ NotTheOthers(Suspended, parked) /\ NotTheOthers(parked, Suspended))
    /\ [][config' = config]_vars

\* Two POST requests are under way at once, one at its third attempt and the
\* other asleep after its first, each with its own key.
C27_Witness ==
    /\ pc = "fetching"
    /\ method = "POST"
    /\ Len(calls) = 3
    /\ parked.pc = "sleeping"
    /\ parked.method = "POST"
    /\ Len(parked.calls) = 1
    /\ KeysIn(headers) # KeysIn(parked.headers)

\* The checks of a verification in the order the claims give them.
CheckOrder == <<"parseHeader", "tolerance", "hmac", "compare", "parse">>

\* The v1 value of the current call's header is not the digest of the call's
\* body under its secret.
WrongSignature ==
    parseHeader(signatureHeader)[1].signature
        # ClaimedDigest(parseHeader(signatureHeader)[1].timestamp)

\* C31: webhook verification runs its checks in a fixed order (header parse,
\* replay-window check, signature comparison, JSON parse) and reports the
\* first failing one: a parseable header with a timestamp outside tolerance
\* and a wrong signature fails with the tolerance error, never with the
\* signature-mismatch error, and a body that is not JSON is reported as a
\* parse error only when the three earlier checks pass.
C31_FirstFailureReported ==
    /\ steps = SubSeq(CheckOrder, 1, Len(steps))
    /\ Settled =>
        /\ ~IsDefined(parseHeader(signatureHeader)) =>
            /\ rejected = Some(PayArkSignatureVerificationError(
                    "Unable to extract timestamp and signature from header"))
            /\ Len(steps) = 1
        /\ (/\ IsDefined(parseHeader(signatureHeader))
            /\ ClaimedOutside(parseHeader(signatureHeader)[1].timestamp)) =>
            /\ rejected = Some(PayArkSignatureVerificationError(
                    "Timestamp outside the tolerance zone"))
            /\ Len(steps) = 2
        /\ (/\ IsDefined(parseHeader(signatureHeader))
            /\ ~ClaimedOutside(parseHeader(signatureHeader)[1].timestamp)
            /\ WrongSignature) =>
            /\ rejected = Some(PayArkSignatureVerificationError("Signature did not match"))
            /\ Len(steps) = 4
        /\ rejected = Some(JsonParseError) =>
            /\ Verified
            /\ ~IsDefined(ParseJson(rawBody))
            /\ Len(steps) = 5

\* A header signed under another secret, for another body that is not JSON,
\* 301 seconds ago, is refused with the tolerance error.
C31_Witness ==
    /\ wpc = "raised"
    /\ rawBody = "not json"
    /\ secret = "whsec_b"
    /\ tolerance = Undefined
    /\ IsDefined(parseHeader(signatureHeader))
    /\ parseHeader(signatureHeader)[1].timestamp = 99
    /\ WrongSignature
    /\ rejected[1].message = "Timestamp outside the tolerance zone"

\* The text is a decimal integer: digits, after an optional sign.
IsIntegerText(text) ==
    LET digits == IF text # <<>> /\ text[1] \in {"+", "-"} THEN Tail(text) ELSE text
    IN  digits # <<>> /\ \A i \in 1..Len(digits) : IsDigit(digits[i])

\* The header of the current call has a t component whose value is not an
\* integer.
TimestampNotInteger ==
    \E i \in 1..Len(Split(signatureHeader, ",")) :
        LET pieces == Split(Split(signatureHeader, ",")[i], "=")
        IN  /\ pieces[1] = <<"t">>
            /\ (Len(pieces) < 2 \/ ~IsIntegerText(pieces[2]))

\* C32: a signature header whose t component is not an integer (digits
\* followed by other characters, such as 't=123abc') is treated as malformed
\* and rejected with the header-unparseable error.
C32_NonIntegerTimestampRejected ==
    (Settled /\ TimestampNotInteger)
    => /\ wpc = "raised"
       /\ rejected = Some(PayArkSignatureVerificationError(
                        "Unable to extract timestamp and signature from header"))

\* C33: the comparison of two texts of equal length examines every character
\* position wherever the first mismatch is, texts of different length are
\* rejected by the length test alone, and the comparison returns true exactly
\* when the texts are equal.
C33_FullScan ==
    IsDefined(cmpResult) =>
        /\ Len(cmpA) = Len(cmpB) => cmpSteps = Len(cmpA)
        /\ Len(cmpA) # Len(cmpB) => cmpSteps = 0 /\ cmpResult = Some(FALSE)
        /\ cmpResult = Some(cmpA = cmpB)

\* Two texts of three characters that differ in the first character only
\* were compared in three steps and found different.
C33_Witness ==
    /\ cmpResult = Some(FALSE)
    /\ Len(cmpA) = 3
    /\ Len(cmpB) = 3
    /\ cmpA[1] # cmpB[1]
    /\ SubSeq(cmpA, 2, 3) = SubSeq(cmpB, 2, 3)
    /\ cmpSteps = 3

\* C34: for every configuration the constructor accepts, the generic
\* 'Request failed after retries' fallback error is never raised: every
\* logical request makes at least one physical attempt, and whenever the
\* loop ends without returning, an error of a physical attempt has been
\* recorded and that error is the one raised.
C34_FallbackNeverRaised ==
    /\ pc \in {"returned", "raised"} => Len(calls) >= 1
    /\ pc = "raised" =>
        /\ thrown # Some(FallbackError)
        /\ IsDefined(lastError)
        /\ thrown = lastError

\* The request sleeps after an attempt that ended in an error response.
SleepsAfterResponse ==
    /\ pc = "sleeping"
    /\ outcome = "error"
    /\ IsDefined(response)
    /\ IsDefined(lastSleep)

\* The delay is the exponential back-off of attempt index k: 500 * 2^k plus
\* a jitter below 200.
IsBackoffOf(delay, k) == 500 * 2^k <= delay /\ delay < 500 * 2^k + 200

\* C35: a Retry-After header is honoured only on a 429 response: after a
\* 500, 502, 503 or 504 response that carries a Retry-After header the sleep
\* before the next attempt is the exponential back-off for that attempt
\* index, not the header's value; a 429 whose Retry-After is neither all
\* digits nor a parseable date uses back-off likewise.
C35_RetryAfterOnlyOn429 ==
    SleepsAfterResponse =>
        /\ response[1].status \in {500, 502, 503, 504} =>
            IsBackoffOf(lastSleep[1].delay, attempt)
        /\ (/\ response[1].status = 429
            /\ response[1].retryAfter.present
            /\ ~AllDigits(response[1].retryAfter.text)
            /\ ~IsDefined(response[1].retryAfter.dateDelta)) =>
            IsBackoffOf(lastSleep[1].delay, attempt)

\* The second attempt ended in a 504 that carried Retry-After: 2, and the
\* request sleeps for the back-off of attempt index 1.
C35_Witness ==
    /\ SleepsAfterResponse
    /\ attempt = 1
    /\ response[1].status = 504
    /\ response[1].retryAfter.present
    /\ response[1].retryAfter.text = <<"2">>
    /\ lastSleep[1].delay = 1100

\* The attempt before the current sleep failed without a Retry-After header
\* to use: a transport fault, a status other than 429, or a 429 without the
\* header.
FailedWithoutHeader ==
    \/ outcome \in {"network", "abort", "unparsed"}
    \/ /\ outcome = "error"
       /\ (response[1].status # 429 \/ ~response[1].retryAfter.present)

\* C36: a server-directed delay is used only for the sleep that immediately
\* follows the 429 response that carried it: when a later attempt of the
\* same logical request fails without a usable Retry-After header, the sleep
\* after that attempt is the exponential back-off for its own attempt index.
C36_DelayNotCarriedOver ==
    (/\ pc = "sleeping"
     /\ IsDefined(lastSleep)
     /\ lastSleep[1].afterDirected
     /\ FailedWithoutHeader)
    => /\ lastSleep[1].attempt = attempt
       /\ lastSleep[1].retryAfterMs = 0
       /\ IsBackoffOf(lastSleep[1].delay, attempt)

\* After a server-directed sleep the second attempt ended in a network fault,
\* and the request sleeps for the back-off of attempt index 1.
C36_Witness ==
    /\ pc = "sleeping"
    /\ attempt = 1
    /\ IsDefined(lastSleep)
    /\ lastSleep[1].afterDirected
    /\ outcome = "network"
    /\ lastSleep[1].delay = 1000

\* A Response with a server-error status that RETRYABLE_STATUS_CODES does not
\* hold (501 among the statuses here) has been handled.
OtherServerError ==
    /\ outcome = "error"
    /\ IsDefined(response)
    /\ response[1].status >= 500
    /\ response[1].status \notin {500, 502, 503, 504}

SameButSignal(a, b) ==
    /\ a.method = b.method
    /\ a.url = b.url
    /\ a.headers = b.headers
    /\ a.body = b.body

\* C38: all physical attempts of one logical request send the same method,
\* URL, header set (with the Authorization header and, on a sandbox client, the
\* sandbox marker) and body, the ones computed before the loop; any two
\* attempts differ in their cancellation signal and in nothing else.
C38_AttemptsSendSameRequest ==
    \A i, j \in 1..Len(calls) :
        /\ SameButSignal(calls[i], calls[j])
        /\ (i # j => calls[i].signal # calls[j].signal)
        /\ calls[i].method = method
        /\ calls[i].url = buildUrl(baseUrl, API_PATH)[1]
        /\ calls[i].headers = headers
        /\ calls[i].body = initBody
        /\ "Authorization" \in DOMAIN calls[i].headers
        /\ (sandbox => "x-sandbox-mode" \in DOMAIN calls[i].headers)

\* A POST with a body on a sandbox client is at its third attempt.
C38_Witness ==
    /\ Len(calls) = 3
    /\ pc = "fetching"
    /\ sandbox
    /\ method = "POST"
    /\ IsDefined(calls[3].body)
    /\ calls[3].body = calls[1].body
    /\ calls[3].headers["x-sandbox-mode"] = "true"
    /\ "Idempotency-Key" \in DOMAIN calls[3].headers
    /\ calls[3].signal # calls[1].signal

\* The current constructEvent() call has the arguments of the call before it.
SameArguments ==
    /\ IsDefined(previous)
    /\ previous[1].rawBody = rawBody
    /\ previous[1].signatureHeader = signatureHeader
    /\ previous[1].secret = secret
    /\ previous[1].tolerance = tolerance

\* The timestamp of the current call's header is within the call's tolerance
\* of the call's clock, or the call has the replay window disabled.
StillWithinTolerance ==
    /\ IsDefined(parseHeader(signatureHeader))
    /\ LET ts == parseHeader(signatureHeader)[1].timestamp
           tol == IF IsDefined(tolerance) THEN tolerance[1] ELSE 300
           now == nowMs \div 1000
       IN  tol <= 0 \/ (now - ts <= tol /\ ts - now <= tol)

\* What a constructEvent() call with the current arguments and clock comes to
\* when nothing but they decides: the event it returns and the error it
\* raises, one of them undefined.
OwnVerdict ==
    LET parsed == parseHeader(signatureHeader)
        signatureError(message) == Some(PayArkSignatureVerificationError(message))
    IN  IF ~IsDefined(parsed)
        THEN <<Undefined, signatureError(HEADER_UNPARSEABLE)>>
        ELSE IF OutsideTolerance(nowMs \div 1000, parsed[1].timestamp,
                                 Coalesce(tolerance, DEFAULT_TOLERANCE_SECONDS))
        THEN <<Undefined, signatureError(TIMESTAMP_OUTSIDE)>>
        ELSE IF ~constantTimeEqual(parsed[1].signature,
                    hmacSHA256Hex(SignedContent(parsed[1].timestamp, rawBody), secret))
        THEN <<Undefined, signatureError(SIGNATURE_MISMATCH)>>
        ELSE IF IsDefined(ParseJson(rawBody))
        THEN <<ParseJson(rawBody), Undefined>>
        ELSE <<Undefined, Some(JsonParseError)>>

====
